---------------------------- MODULE Spec2Model ----------------------------
(***************************************************************************)
(* Model of the BumpStockEngine server networking core:                    *)
(*   - DCFConnection (src/unnamed/part_000, second revision, lines 243ff,  *)
(*     declared in src/rts/Net/DCFConnection.h), and                       *)
(*   - CGameServer (src/unnamed/part_001, declared in src/unnamed/part_002)*)
(*                                                                         *)
(* Two specifications share the definitions:                               *)
(*   Spec      the game server with the connection it owns, driven by its  *)
(*             own thread (UpdateLoop), the transport and the host program;*)
(*   ConnSpec  one DCFConnection driven directly through its public        *)
(*             interface by a caller and by the SDK's outcomes.            *)
(*                                                                         *)
(* Speeds are fixed-point numbers with two decimals (1.0f is 100).         *)
(***************************************************************************)
EXTENDS Integers, Sequences, FiniteSets, TLC

VARIABLES
    gs,            \* the CGameServer object (its data members)
    dcf,           \* the DCFConnection object (its data members, SDK counters)
    udpQueue,      \* inbound queue of the fallback netcode::UDPListener
    wire,          \* what has actually been transmitted to the clients
    serverThread,  \* the thread started by the constructor: running / hung
    hostThread,    \* the thread calling Initialize: idle / done / hung
    workersHung,   \* DCF update workers blocked forever on metricsMutex
    delivered,     \* packets the transport has handed over so far
    hist,          \* what the latest call did (history, read by the properties)
    callers,       \* threads inside TriggerFailoverIfNeeded: their position
    workers,       \* what each DCF update worker holds between receive and push
    dispatched     \* packets handed to ServerMessage so far, in order

vars == <<gs, dcf, udpQueue, wire, serverThread, hostThread,
          workersHung, delivered, hist, callers, workers, dispatched>>

\* the variables of the finer-grained specifications
aux == <<callers, workers, dispatched>>

----------------------------------------------------------------------------
(* Program constants *)

SYNCCHECK_TIMEOUT == 300
SYNCCHECK_MSG_TIMEOUT == 400
serverKeyframeInterval == 16
NUM_UPDATE_THREADS == 4
MaxPacketLength == 65535
FailoverThreshold == 5
ReconnectThreshold == 10
DefaultMaxRetries == 3
DefaultRttThreshold == 50
SpeedControlRttLimit == 50
RejectLimit == 3
SERVER_PLAYER == 255

\* unsigned is 32 bits wide. A 32-bit value is kept as its two 16-bit halves
\* <<high, low>> (the model's integers are themselves 32-bit signed).
HalfRange == 2^16

\* int -> unsigned: x modulo 2^32
ToUnsigned(x) ==
    IF x >= 0 THEN <<x \div HalfRange, x % HalfRange>>
    ELSE LET y == (x + 2147483647) + 1   \* x + 2^31, the low 31 bits
         IN  <<(HalfRange \div 2) + (y \div HalfRange), y % HalfRange>>

UnsignedGreater(a, b) == a[1] > b[1] \/ (a[1] = b[1] /\ a[2] > b[2])

\* -1u: no such player
NoPlayerNumber == ToUnsigned(-1)

----------------------------------------------------------------------------
(* Bounds of the model *)

MaxFrame == 320        \* the frame counter is explored up to this value
MaxInitFrame == 2      \* the host program calls Initialize() and Reload()
                       \* within the first frames
InboundLength == 8     \* length of the packets the transport delivers
LastRecvFrame == 17    \* the transport delivers within the first frames
MaxRecv == 3           \* packets the transport delivers in one run
MaxQueue == 2          \* packets waiting in the inbound queue
NumSlots == 2          \* player slots explored
MAX_AIS == 3           \* skirmish-AI ids explored (the ids are 0 .. MAX_AIS - 1)
MaxSends == 4          \* ConnSpec: SendData calls in one run
MaxCloses == 2         \* ConnSpec: Close calls in one run
MarkDelay == 3         \* frames a late sync entry may wait for its warning

Slots == 0 .. (NumSlots - 1)
Teams == {0}
SyncFrames == {16}
Checksums == {1, 2}
RttValues == {200}
SdkMetrics == {<<>>} \cup {<<r>> : r \in RttValues}

\* outcome of one dcf_client_send_message call
SendErrors == {"DCF_SUCCESS", "DCF_TIMEOUT", "DCF_NETWORK_ERROR", "DCF_OTHER"}

\* what locking metricsMutex again on the thread that holds it does
\* (std::mutex is not recursive: undefined behaviour; the builds either
\* block for ever or throw std::system_error)
RelockOutcomes == {"hang", "throw"}

\* what the SDK answers to the dcf_client_send_message calls of one SendData
ErrSeqs == [1 .. DefaultMaxRetries -> SendErrors]
AllSucceed == [i \in 1 .. DefaultMaxRetries |-> "DCF_SUCCESS"]

\* packet lengths handed to SendData; -1 stands for a null pointer
SendLengths == {-1, 0, 8, MaxPacketLength + 1}

\* std::error_code values returned by SendWithRetry
NoError == "ok"

----------------------------------------------------------------------------
(* Packets: first byte is the tag, the rest is the payload *)

Packet(tag, len, playerNum, frameNum, checksum, pause, spectator, team) ==
    [tag |-> tag, length |-> len, playerNum |-> playerNum, frameNum |-> frameNum,
     checksum |-> checksum, pause |-> pause, spectator |-> spectator,
     team |-> team]

SyncResponsePkt(p, f, c) == Packet("SYNCRESPONSE", InboundLength, p, f, c, FALSE, FALSE, 0)
PausePkt(p, on) == Packet("PAUSE", InboundLength, p, 0, 0, on, FALSE, 0)
NewPlayerPkt(p, spec, t) == Packet("CREATE_NEWPLAYER", InboundLength, p, 0, 0, FALSE, spec, t)
KeyFramePkt(f) == Packet("KEYFRAME", 5, SERVER_PLAYER, f, 0, FALSE, FALSE, 0)
ServerPkt(tag) == Packet(tag, 4, SERVER_PLAYER, 0, 0, FALSE, FALSE, 0)
\* A packet whose payload fails to unpack (UnpackPacketException) carries
\* the mark "malformed".
Malformed(pkt) == "malformed" \in DOMAIN pkt
\* A chat packet also carries the text of the message.
ChatPkt(p, text) ==
    Packet("CHAT", InboundLength, p, 0, 0, FALSE, FALSE, 0) @@ [text |-> text]

SyncPackets == {SyncResponsePkt(p, f, c) : p \in Slots, f \in SyncFrames,
                                           c \in Checksums}
PausePackets == {PausePkt(0, on) : on \in BOOLEAN}
JoinPackets == {NewPlayerPkt(1, FALSE, 0)}

InboundPackets == SyncPackets \cup PausePackets \cup JoinPackets

----------------------------------------------------------------------------
(* DCFConnection *)

\* The object after a successful construction: InitializeClient has set
\* initialized (a failing construction throws and leaves no object).
\* The last five fields are the SDK's side of the connection.
DcfConstructed ==
    [initialized |-> TRUE,
     muted |-> TRUE,
     lossFactor |-> 0,
     rttThreshold |-> DefaultRttThreshold,
     redundancy |-> TRUE,
     msgQueue |-> <<>>,
     totalPacketsSent |-> 0,
     totalPacketsReceived |-> 0,
     totalBytesReceived |-> 0,
     totalBytesSent |-> 0,
     failedSendAttempts |-> 0,
     averageRTT |-> 0,
     lastMetricsUpdateSet |-> FALSE, \* FALSE: still the epoch
     metricsMutexStuck |-> FALSE,    \* held for ever by a thread that hangs
     stopped |-> 0,                  \* dcf_client_stop calls
     flushed |-> 0,                  \* dcf_client_flush calls
     failovers |-> 0,                \* dcf_redundancy_trigger_failover calls
     sends |-> 0,                    \* dcf_client_send_message calls
     sendRun |-> 0,        \* dcf_client_send_message calls that failed since
                           \* the last one that succeeded or the last failover
     failoverRuns |-> {},  \* sendRun at each failover
     overdue |-> FALSE]    \* a message was sent after five failures in a row
                           \* with no failover in between

\* The server's dcfConnection pointer is null: the value is never used.
DcfAbsent == [DcfConstructed EXCEPT !.initialized = FALSE]

\* dcf_client_send_message has returned err.
SdkSend(c, err) ==
    [c EXCEPT !.sends = @ + 1,
              !.overdue = @ \/ c.sendRun >= FailoverThreshold,
              !.sendRun = IF err = "DCF_SUCCESS" THEN 0 ELSE @ + 1]

\* dcf_redundancy_trigger_failover has been called.
SdkFailover(c) ==
    [c EXCEPT !.failovers = @ + 1,
              !.failoverRuns = @ \cup {c.sendRun},
              !.sendRun = 0]

\* The result of a call on the connection: the object afterwards, whether
\* the calling thread is blocked for ever, whether an exception left the call.
Ret(c, hung, thrown) == [conn |-> c, hung |-> hung, thrown |-> thrown]

IsInRTTGroup(c, rtt) == rtt < c.rttThreshold

NeedsReconnect(c) == c.failedSendAttempts > ReconnectThreshold

CanReconnect(c) == TRUE

\* ReconnectTo only logs.
ReconnectTo(c) == c

\* std::lock_guard on metricsMutex around the guarded statements. c: the
\* object before them, body: the object after them. holding: the calling
\* thread already holds the mutex, and ub is what locking it again does.
LockMetrics(c, body, holding, ub) ==
    IF holding
    THEN IF ub = "hang"
         THEN Ret([c EXCEPT !.metricsMutexStuck = TRUE], TRUE, FALSE)
         ELSE Ret(c, FALSE, TRUE)
    ELSE IF c.metricsMutexStuck
         THEN Ret(c, TRUE, FALSE)
         ELSE Ret(body, FALSE, FALSE)

\* The two statements of TriggerFailoverIfNeeded after its condition.
FailoverAndReset(invoked, holding, ub) ==
    LockMetrics(invoked, [invoked EXCEPT !.failedSendAttempts = 0], holding, ub)

\* The condition of TriggerFailoverIfNeeded, read without the mutex.
FailoverDue(c) == c.failedSendAttempts > FailoverThreshold /\ c.redundancy

TriggerFailoverIfNeeded(c, holding, ub) ==
    IF FailoverDue(c)
    THEN FailoverAndReset(SdkFailover(c), holding, ub)
    ELSE Ret(c, FALSE, FALSE)

\* A try block that catches std::exception around a call that returned r.
Caught(r) == Ret(r.conn, r.hung, FALSE)

\* rtt: the number under "average_rtt" in the SDK's metrics.
UpdateMetrics(c, rtt, holding, ub) ==
    Caught(LockMetrics(c, [c EXCEPT !.averageRTT = rtt], holding, ub))

\* sdk: <<rtt>> when dcf_client_get_metrics succeeds and reports a number
\* under "average_rtt", <<>> otherwise.
ProcessMetrics(c, sdk, holding, ub) ==
    IF sdk = <<>> THEN Ret(c, FALSE, FALSE)
    ELSE UpdateMetrics(c, sdk[1], holding, ub)

\* metrics.lastMetricsUpdate = now, after ProcessMetrics returned pm.
StampMetrics(pm) ==
    IF pm.hung THEN pm
    ELSE Ret([pm.conn EXCEPT !.lastMetricsUpdateSet = TRUE], FALSE, FALSE)

\* The end of Update, after the metrics block returned m.
UpdateTail(m, ub) ==
    IF m.hung THEN m
    ELSE Caught(TriggerFailoverIfNeeded(m.conn, TRUE, ub))

\* DCFConnection::Update. due: more than 2 s since lastMetricsUpdate.
DcfUpdate(c, due, sdk, ub) ==
    IF ~c.initialized THEN Ret(c, FALSE, FALSE)
    ELSE IF c.metricsMutexStuck THEN Ret(c, TRUE, FALSE)
    ELSE IF due \/ ~c.lastMetricsUpdateSet
    THEN UpdateTail(StampMetrics(ProcessMetrics(c, sdk, TRUE, ub)), ub)
    ELSE UpdateTail(Ret(c, FALSE, FALSE), ub)

\* The state of the loop of SendWithRetry: the object, the loop counter, ec,
\* whether the function has returned, whether the thread is blocked.
RetryRet(c, attempt, ec, returned, hung) ==
    [conn |-> c, attempt |-> attempt, ec |-> ec, returned |-> returned,
     hung |-> hung]

\* DCF_SUCCESS: the counters are updated under the mutex (r), `return ec`.
AttemptSucceeded(r, attempt, ec) ==
    RetryRet(r.conn, attempt, ec, ~r.hung, r.hung)

\* The end of the loop body: failedSendAttempts++ and ++attempt.
AttemptFailed(c, attempt, ec) ==
    RetryRet([c EXCEPT !.failedSendAttempts = @ + 1], attempt + 1, ec, FALSE, FALSE)

\* DCF_TIMEOUT: TriggerFailoverIfNeeded has returned t.
AttemptTimedOut(t, attempt, ec) ==
    IF t.hung THEN RetryRet(t.conn, attempt, ec, FALSE, TRUE)
    ELSE AttemptFailed(t.conn, attempt, "timed_out")

\* SendAttempt that goes on after an error of class other: the variant C27
\* is tested against.
SendAttempt_OtherRetries(s, len, attempt, ec, err) ==
    CASE err = "DCF_SUCCESS" ->
           AttemptSucceeded(
               LockMetrics(s, [s EXCEPT !.totalPacketsSent = @ + 1,
                                        !.totalBytesSent = @ + len],
                           FALSE, "hang"),
               attempt, ec)
      [] err = "DCF_TIMEOUT" ->
           AttemptTimedOut(TriggerFailoverIfNeeded(s, FALSE, "hang"), attempt, ec)
      [] OTHER ->
           AttemptFailed(IF NeedsReconnect(s) THEN ReconnectTo(s) ELSE s,
                         attempt, "network_down")

\* One iteration of the loop of SendWithRetry; s: the object once
\* dcf_client_send_message has returned err.
SendAttempt(s, len, attempt, ec, err) ==
    CASE err = "DCF_SUCCESS" ->
           AttemptSucceeded(
               LockMetrics(s, [s EXCEPT !.totalPacketsSent = @ + 1,
                                        !.totalBytesSent = @ + len],
                           FALSE, "hang"),
               attempt, ec)
      [] err = "DCF_TIMEOUT" ->
           AttemptTimedOut(TriggerFailoverIfNeeded(s, FALSE, "hang"), attempt, ec)
      [] err = "DCF_NETWORK_ERROR" ->
           AttemptFailed(IF NeedsReconnect(s) THEN ReconnectTo(s) ELSE s,
                         attempt, "network_down")
      [] OTHER ->
           RetryRet(s, attempt, "io_error", TRUE, FALSE)

\* SendWithRetry from iteration `attempt` on. errs[i]: what the SDK answers
\* to the i-th dcf_client_send_message of the call.
RECURSIVE SendWithRetry(_, _, _, _, _, _)
RECURSIVE RetryLoop(_, _, _, _)
SendWithRetry(c, len, attempt, ec, errs, maxRetries) ==
    IF attempt >= maxRetries THEN RetryRet(c, attempt, ec, TRUE, FALSE)
    ELSE RetryLoop(SendAttempt(SdkSend(c, errs[attempt + 1]), len, attempt, ec,
                               errs[attempt + 1]),
                   len, errs, maxRetries)

RetryLoop(r, len, errs, maxRetries) ==
    IF r.returned \/ r.hung THEN r
    ELSE SendWithRetry(r.conn, len, r.attempt, r.ec, errs, maxRetries)

\* SendAdmitted with the length test off by one (data->length > 65536):
\* the variant C12 is tested against.
SendAdmitted_OffByOne(c, len) ==
    /\ c.initialized /\ ~c.muted
    /\ len # -1 /\ len # 0 /\ len <= MaxPacketLength + 1

\* SendAdmitted without the test of muted: the variant C38 is tested
\* against.
SendAdmitted_NoMuteTest(c, len) ==
    /\ c.initialized
    /\ len # -1 /\ len # 0 /\ len <= MaxPacketLength

\* SendData up to the call of SendWithRetry: TRUE when the packet goes on.
\* len = -1 stands for a null packet pointer.
SendAdmitted(c, len) ==
    /\ c.initialized /\ ~c.muted
    /\ len # -1 /\ len # 0 /\ len <= MaxPacketLength

\* What SendData did: the object, whether the packet was transmitted, how
\* often failedSendAttempts was incremented, whether the thread is blocked.
SendRet(c, sent, failed, hung) ==
    [conn |-> c, sent |-> sent, failed |-> failed, hung |-> hung]

SendTailRet(t, sent, failed) == SendRet(t.conn, sent, failed, t.hung)

\* SendData after SendWithRetry has returned r.
SendTail(c, r) ==
    IF r.hung THEN SendRet(r.conn, FALSE, r.attempt, TRUE)
    ELSE IF r.ec # NoError
    THEN SendTailRet(TriggerFailoverIfNeeded(r.conn, FALSE, "hang"),
                     r.conn.totalPacketsSent > c.totalPacketsSent, r.attempt)
    ELSE SendRet(r.conn, r.conn.totalPacketsSent > c.totalPacketsSent,
                 r.attempt, FALSE)

SendData(c, len, errs) ==
    IF ~SendAdmitted(c, len) THEN SendRet(c, FALSE, 0, FALSE)
    ELSE SendTail(c, SendWithRetry(c, len, 0, NoError, errs, DefaultMaxRetries))

\* HandleIncomingMessage on a worker thread (UpdateThreadLoop): the packet
\* is pushed, then the counters are updated under metricsMutex.
Pushed(c, pkt) == [c EXCEPT !.msgQueue = Append(@, pkt)]

Counted(p, pkt) ==
    LockMetrics(p, [p EXCEPT !.totalPacketsReceived = @ + 1,
                             !.totalBytesReceived = @ + pkt.length],
                FALSE, "hang")

\* pkt.length = -1 stands for a null data pointer.
HandleIncomingMessage(c, pkt) ==
    IF pkt.length = -1 \/ pkt.length = 0 \/ pkt.length > MaxPacketLength
    THEN Ret(c, FALSE, FALSE)
    ELSE Counted(Pushed(c, pkt), pkt)

HasIncomingData(c) == c.msgQueue # <<>>

\* capacity of msgQueue
QueueCapacity == 1024

\* Peek(ahead): the object afterwards. The head is popped and pushed again.
Peek(c, ahead) ==
    IF ahead >= QueueCapacity \/ c.msgQueue = <<>> THEN c
    ELSE [c EXCEPT !.msgQueue = Append(Tail(@), Head(@))]

\* GetData: the object afterwards (the packet returned is the head).
GetData(c) ==
    IF c.msgQueue = <<>> THEN c ELSE [c EXCEPT !.msgQueue = Tail(@)]

Unmute(c) == [c EXCEPT !.muted = FALSE]

Flush(c, forced) == IF forced THEN [c EXCEPT !.flushed = @ + 1] ELSE c

Stopped(f) == [f EXCEPT !.initialized = FALSE, !.stopped = @ + 1]

Close(c, flush) == Stopped(IF flush THEN Flush(c, TRUE) ELSE c)

----------------------------------------------------------------------------
(* CGameServer *)

NoPlayer ==
    [active |-> FALSE, spectator |-> FALSE, team |-> 0, isMidgameJoin |-> FALSE,
     readyToStart |-> FALSE, cpuUsage |-> 0, connection |-> FALSE]

\* freeSkirmishAIs when the constructor returns: the vector is constructed
\* with MAX_AIS elements of value 0, the ids 0 .. MAX_AIS - 1 are appended,
\* and the whole vector is reversed. The back of the vector is the last
\* element of the sequence.
Reverse(s) == [i \in 1 .. Len(s) |-> s[Len(s) + 1 - i]]

FreeAIsConstructed ==
    Reverse([i \in 1 .. 2 * MAX_AIS |-> IF i <= MAX_AIS THEN 0 ELSE i - MAX_AIS - 1])

\* The object when the constructor returns. primary: the DCFConnection was
\* constructed; otherwise its constructor threw and the UDP listener exists.
GsConstructed(primary) ==
    [dcfConnection |-> primary,
     udpListener |-> ~primary,
     players |-> [p \in Slots |-> NoPlayer],
     teams |-> [t \in Teams |-> FALSE],
     freeSkirmishAIs |-> FreeAIsConstructed,
     rejectedConnections |-> [p \in Slots |-> 0],
     netPingTimings |-> [p \in Slots |-> FALSE],   \* TRUE: a time was stored
     lastFrameResponse |-> [p \in Slots |-> 0],
     outstandingSyncFrames |-> <<>>,
     modGameTime |-> 0,
     userSpeedFactor |-> 100,
     internalSpeed |-> 100,
     medianCpu |-> 0,
     curSpeedCtrl |-> 1,
     serverFrameNum |-> -1,
     syncErrorFrame |-> 0,
     syncWarningFrame |-> 0,
     desyncHasOccurred |-> FALSE,
     localClientNumber |-> NoPlayerNumber,
     maxUserSpeed |-> 100,
     minUserSpeed |-> 100,
     isPaused |-> FALSE,
     gamePausable |-> TRUE,
     allowSpecJoin |-> FALSE,
     whiteListAdditionalPlayers |-> FALSE,
     gameHasStarted |-> FALSE,
     reloadingServer |-> FALSE,
     quitServer |-> FALSE,
     hostif |-> "none"]

\* The state a handler works on: the server, its connection, the wire,
\* whether the executing thread got blocked for ever inside the handler,
\* the packets the handler has passed to SendData or Broadcast so far, and
\* the paths it has passed them to ("dcf": dcfConnection->SendData,
\* "legacy": Broadcast, the participants' own connections), and the
\* messages it has sent to the autohost, and the indices outside
\* [0, MAX_PLAYERS) at which it has written to a per-player array.
St(g, c, w, hung) ==
    [gs |-> g, dcf |-> c, wire |-> w, hung |-> hung, out |-> <<>>, paths |-> {},
     host |-> <<>>, wild |-> {}]

Clamp(x, lo, hi) == IF x < lo THEN lo ELSE IF hi < x THEN hi ELSE x

\* The packet has left for the clients: kept for KEYFRAME packets.
OnWire(w, pkt) ==
    IF pkt.tag = "KEYFRAME" THEN [w EXCEPT !.keyFrames = @ \cup {pkt.frameNum}]
    ELSE w

\* Broadcast: SendData on the connection of every active participant
\* that has one.
Broadcast(st, pkt) ==
    IF \E p \in Slots : st.gs.players[p].active /\ st.gs.players[p].connection
    THEN [st EXCEPT !.wire = OnWire(@, pkt), !.out = Append(@, pkt),
                    !.paths = @ \cup {"legacy"}]
    ELSE [st EXCEPT !.out = Append(@, pkt), !.paths = @ \cup {"legacy"}]

\* dcfConnection->SendData(packet) has returned r.
Sent(st, pkt, r) ==
    [st EXCEPT !.dcf = r.conn,
               !.wire = IF r.sent THEN OnWire(@, pkt) ELSE @,
               !.hung = r.hung,
               !.out = Append(@, pkt),
               !.paths = @ \cup {"dcf"}]

\* if (dcfConnection) dcfConnection->SendData(packet); else Broadcast(packet);
Transmit(st, pkt, errs) ==
    IF st.hung THEN st
    ELSE IF st.gs.dcfConnection
    THEN Sent(st, pkt, SendData(st.dcf, pkt.length, errs))
    ELSE Broadcast(st, pkt)

InternalSpeedChange(st, newSpeed, errs) ==
    IF st.hung \/ st.gs.internalSpeed = newSpeed THEN st
    ELSE Transmit([st EXCEPT !.gs.internalSpeed = newSpeed],
                  ServerPkt("INTERNAL_SPEED"), errs)

\* userSpeedFactor = newSpeed and the USER_SPEED packet, after the internal
\* speed was dealt with
SetUserSpeed(st, newSpeed, errs) ==
    IF st.hung THEN st
    ELSE Transmit([st EXCEPT !.gs.userSpeedFactor = newSpeed],
                  ServerPkt("USER_SPEED"), errs)

\* UserSpeedChange with newSpeed already clamped
UserSpeedClamped(st, newSpeed, errs) ==
    IF st.gs.userSpeedFactor = newSpeed THEN st
    ELSE SetUserSpeed(
             IF st.gs.internalSpeed > newSpeed
                \/ st.gs.internalSpeed = st.gs.userSpeedFactor
             THEN InternalSpeedChange(st, newSpeed, errs)
             ELSE st,
             newSpeed, errs)

UserSpeedChange(st, newSpeed, errs) ==
    UserSpeedClamped(st, Clamp(newSpeed, st.gs.minUserSpeed, st.gs.maxUserSpeed),
                     errs)

\* SetGamePausable (declared in the header; its body is not in the sources)
SetGamePausable(g, arg) == [g EXCEPT !.gamePausable = arg]

ActivePlayers(g) == {p \in Slots : g.players[p].active}

RECURSIVE SumCpu(_, _)
SumCpu(g, ps) ==
    IF ps = {} THEN 0
    ELSE SumCpu(g, ps \ {CHOOSE q \in ps : TRUE})
         + g.players[CHOOSE q \in ps : TRUE].cpuUsage

MaxCpu(g) ==
    IF ActivePlayers(g) = {} THEN 0
    ELSE g.players[CHOOSE q \in ActivePlayers(g) :
                       \A o \in ActivePlayers(g) :
                           g.players[o].cpuUsage <= g.players[q].cpuUsage].cpuUsage

\* medianCpu after the first loop of UpdateSpeedControl
MedianCpu(g) ==
    IF ActivePlayers(g) = {} THEN g.medianCpu
    ELSE SumCpu(g, ActivePlayers(g)) \div Cardinality(ActivePlayers(g))

\* RttSpeedFactor without the clamp: the variant C13 is tested against.
RttSpeedFactor_NoClamp(g, rtt) ==
    IF g.dcfConnection /\ rtt > SpeedControlRttLimit
    THEN (g.userSpeedFactor * SpeedControlRttLimit) \div rtt
    ELSE g.userSpeedFactor

\* userSpeedFactor after the RTT block of UpdateSpeedControl
RttSpeedFactor(g, rtt) ==
    IF g.dcfConnection /\ rtt > SpeedControlRttLimit
    THEN Clamp((g.userSpeedFactor * SpeedControlRttLimit) \div rtt,
               g.minUserSpeed, g.maxUserSpeed)
    ELSE g.userSpeedFactor

UpdateSpeedControl(st, speedCtrl, errs) ==
    IF st.hung \/ speedCtrl = 0 THEN st
    ELSE InternalSpeedChange(
             [st EXCEPT !.gs.medianCpu = MedianCpu(st.gs),
                        !.gs.userSpeedFactor = RttSpeedFactor(st.gs, st.dcf.averageRTT)],
             IF speedCtrl = 1 THEN MedianCpu(st.gs) ELSE MaxCpu(st.gs),
             errs)

\* serverFrameNum++ and the key frame of CreateNewFrame
FrameStep(st, errs) ==
    IF (st.gs.serverFrameNum + 1) % serverKeyframeInterval = 0
    THEN Transmit([st EXCEPT !.gs.serverFrameNum = @ + 1],
                  KeyFramePkt(st.gs.serverFrameNum + 1), errs)
    ELSE [st EXCEPT !.gs.serverFrameNum = @ + 1]

\* modGameTime += deltaTime * internalSpeed; deltaTime is one loop period
TimeStep(st) ==
    IF st.hung THEN st
    ELSE [st EXCEPT !.gs.modGameTime = @ + st.gs.internalSpeed]

SpeedStep(st, errs) == UpdateSpeedControl(st, st.gs.curSpeedCtrl, errs)

CreateNewFrame(st, errs) == SpeedStep(TimeStep(FrameStep(st, errs)), errs)

\* PauseGame without the test isPaused == pause: the variant C15 is tested
\* against.
PauseGame_NoChangeTest(st, pause, fromServer, errs) ==
    IF st.hung \/ ~st.gs.gamePausable THEN st
    ELSE Transmit([st EXCEPT !.gs.isPaused = pause], ServerPkt("PAUSE"), errs)

PauseGame(st, pause, fromServer, errs) ==
    IF st.hung \/ ~st.gs.gamePausable \/ st.gs.isPaused = pause THEN st
    ELSE Transmit([st EXCEPT !.gs.isPaused = pause], ServerPkt("PAUSE"), errs)

\* rejectedConnections[playerNum]++, after the REJECT packet
CountReject(st, playerNum) ==
    IF st.hung THEN st
    ELSE [st EXCEPT !.gs.rejectedConnections[playerNum] = @ + 1]

\* SendReject(playerNum, reason)
RejectPkt(playerNum, reason) ==
    [tag |-> "REJECT", length |-> 4, playerNum |-> playerNum, reason |-> reason]

RejectConnection(st, playerNum, reason, errs) ==
    CountReject(Transmit(st, RejectPkt(playerNum, reason), errs), playerNum)

\* AddAdditionalUser: the participant's fields
Joined(g, pkt) ==
    [g.players[pkt.playerNum] EXCEPT
        !.active = TRUE,
        !.spectator = pkt.spectator,
        !.team = pkt.team,
        !.isMidgameJoin = g.gameHasStarted /\ ~pkt.spectator]

\* AddAdditionalUser: the team of a player, after CREATE_NEWPLAYER was sent
JoinTeam(st, pkt) ==
    IF st.hung THEN st
    ELSE IF ~pkt.spectator /\ ~st.gs.teams[pkt.team]
    THEN Broadcast([st EXCEPT !.gs.players[pkt.playerNum].readyToStart = TRUE,
                              !.gs.teams[pkt.team] = TRUE],
                   ServerPkt("JOINTEAM"))
    ELSE st

\* AddAdditionalUser without the test of rejectedConnections: the variant C19
\* is tested against.
AddAdditionalUser_NoLimit(st, pkt, errs) ==
    IF st.hung \/ Malformed(pkt) THEN st
    ELSE IF ~st.gs.allowSpecJoin /\ ~st.gs.whiteListAdditionalPlayers /\ pkt.spectator
    THEN RejectConnection(st, pkt.playerNum,
                          "Server does not allow additional spectators", errs)
    ELSE JoinTeam(Transmit([st EXCEPT !.gs.players[pkt.playerNum] = Joined(st.gs, pkt)],
                           ServerPkt("CREATE_NEWPLAYER"), errs),
                  pkt)

AddAdditionalUser(st, pkt, errs) ==
    IF st.hung \/ Malformed(pkt) THEN st
    ELSE IF ~st.gs.allowSpecJoin /\ ~st.gs.whiteListAdditionalPlayers /\ pkt.spectator
    THEN RejectConnection(st, pkt.playerNum,
                          "Server does not allow additional spectators", errs)
    ELSE IF st.gs.rejectedConnections[pkt.playerNum] > RejectLimit
    THEN RejectConnection(st, pkt.playerNum,
                          "Too many failed connection attempts", errs)
    ELSE JoinTeam(Transmit([st EXCEPT !.gs.players[pkt.playerNum] = Joined(st.gs, pkt)],
                           ServerPkt("CREATE_NEWPLAYER"), errs),
                  pkt)

\* what a write to players[playerNum] or netPingTimings[playerNum] does when
\* playerNum is not below MAX_PLAYERS (operator[] checks no bounds:
\* undefined behaviour; the builds either write to the memory behind the
\* array and go on, or the write faults and the thread never returns)
WildWriteOutcomes == {"overwrite", "fault"}

WildWrite(st, playerNum, ub) ==
    IF ub = "fault" THEN [st EXCEPT !.hung = TRUE]
    ELSE [st EXCEPT !.wild = @ \cup {playerNum}]

\* AddAdditionalUser, the team of a player whose number is outside players
WildJoinTeam(st, pkt) ==
    IF st.hung THEN st
    ELSE IF ~pkt.spectator /\ ~st.gs.teams[pkt.team]
    THEN Broadcast([st EXCEPT !.gs.teams[pkt.team] = TRUE], ServerPkt("JOINTEAM"))
    ELSE st

\* AddAdditionalUser given any player number. rejectedConnections is a
\* std::map: a number outside the slots is counted under a key of its own,
\* which the model does not keep.
AddAdditionalUserAt(st, pkt, errs, ub) ==
    IF pkt.playerNum \in Slots THEN AddAdditionalUser(st, pkt, errs)
    ELSE IF st.hung \/ Malformed(pkt) THEN st
    ELSE IF ~st.gs.allowSpecJoin /\ ~st.gs.whiteListAdditionalPlayers /\ pkt.spectator
    THEN Transmit(st, RejectPkt(pkt.playerNum,
                                "Server does not allow additional spectators"), errs)
    ELSE WildJoinTeam(Transmit(WildWrite(st, pkt.playerNum, ub),
                               ServerPkt("CREATE_NEWPLAYER"), errs),
                      pkt)

\* CGameServer::HandlePing: netPingTimings[playerNum] = spring_gettime().
\* medianPing is recomputed from the clock and is not kept.
HandlePing(st, pkt, ub) ==
    IF st.hung \/ Malformed(pkt) THEN st
    ELSE IF pkt.playerNum \in Slots
    THEN [st EXCEPT !.gs.netPingTimings[pkt.playerNum] = TRUE]
    ELSE WildWrite(st, pkt.playerNum, ub)

\* CGameServer::HandleGameFrameProgress
HandleGameFrameProgress(st, pkt) ==
    IF st.hung \/ Malformed(pkt) THEN st
    ELSE IF pkt.playerNum \in Slots /\ st.gs.players[pkt.playerNum].active
    THEN [st EXCEPT !.gs.lastFrameResponse[pkt.playerNum] = pkt.frameNum]
    ELSE st

\* outstandingSyncFrames[frameNum]
SyncEntry(g, f) ==
    IF f \in DOMAIN g.outstandingSyncFrames THEN g.outstandingSyncFrames[f]
    ELSE <<>>

\* std::map::insert keeps an element that is already there
MapInsert(entry, k, v) ==
    IF k \in DOMAIN entry THEN entry ELSE (k :> v) @@ entry

UnpackSyncResponse(st, pkt) ==
    IF st.hung \/ Malformed(pkt) THEN st
    ELSE [st EXCEPT !.gs.outstandingSyncFrames =
              (pkt.frameNum :> MapInsert(SyncEntry(st.gs, pkt.frameNum),
                                         pkt.playerNum, pkt.checksum)) @@ @]

\* What the constructor of AutohostInterface can leave behind: "attached"
\* when it set initialized, "failed" when both the DCF set-up and the UDP
\* bind failed; "none": there is no interface (hostif == nullptr).
AutohostOutcomes == {"none", "attached", "failed"}

\* AutohostInterface::SendPlayerChat, and every other Send...: nothing is
\* sent unless the interface is initialized.
SendPlayerChat(st, playerNum) ==
    IF st.gs.hostif = "attached"
    THEN [st EXCEPT !.host = Append(@, [tag |-> "PLAYER_CHAT", playerNum |-> playerNum])]
    ELSE st

\* GotChatMessage after the packet went out: the chat of a player is
\* passed on to the autohost.
ChatToAutohost(st, pkt) ==
    IF ~st.hung /\ st.gs.hostif # "none" /\ pkt.playerNum # SERVER_PLAYER
    THEN SendPlayerChat(st, pkt.playerNum)
    ELSE st

GotChatMessage(st, pkt, errs) ==
    IF pkt.text = "" THEN st
    ELSE ChatToAutohost(Transmit(st, pkt, errs), pkt)

ServerMessage(st, pkt, errs) ==
    IF st.hung \/ pkt.length = 0 THEN st
    ELSE CASE pkt.tag = "SYNCRESPONSE" ->
                UnpackSyncResponse(
                    IF st.gs.dcfConnection /\ ~IsInRTTGroup(st.dcf, st.dcf.averageRTT)
                    THEN InternalSpeedChange(
                             st, (st.gs.userSpeedFactor * 8) \div 10, errs)
                    ELSE st,
                    pkt)
           [] pkt.tag = "CREATE_NEWPLAYER" ->
                AddAdditionalUser(Transmit(st, pkt, errs), pkt, errs)
           [] pkt.tag = "CHAT" ->
                IF Malformed(pkt) THEN st ELSE GotChatMessage(st, pkt, errs)
           [] pkt.tag = "PAUSE" ->
                IF Malformed(pkt) THEN st
                ELSE PauseGame(st, pkt.pause, pkt.playerNum = SERVER_PLAYER, errs)
           [] OTHER ->
                Transmit(st, pkt, errs)

\* while (HasIncomingData()) ServerMessage(GetData());
RECURSIVE Dispatch(_, _, _)
Dispatch(st, queue, errs) ==
    IF queue = <<>> THEN st
    ELSE Dispatch(ServerMessage(st, Head(queue), errs), Tail(queue), errs)

CheckForGameEnd(g) == \A t \in Teams : ~g.teams[t]

QuitGame(st, errs) ==
    IF st.gs.quitServer THEN st
    ELSE Transmit([st EXCEPT !.gs.quitServer = TRUE], ServerPkt("QUIT"), errs)

RECURSIVE SendCpuUsageTo(_, _, _)
SendCpuUsageTo(st, ps, errs) ==
    IF ps = {} THEN st
    ELSE SendCpuUsageTo(Transmit(st, ServerPkt("CPU_USAGE"), errs),
                        ps \ {CHOOSE q \in ps : TRUE}, errs)

SendClientProcUsage(st, errs) == SendCpuUsageTo(st, ActivePlayers(st.gs), errs)

\* The inbound queue Update drains: the connection's, or the listener's.
Inbound(g, c, u) ==
    IF g.dcfConnection /\ c.initialized THEN c.msgQueue
    ELSE IF g.udpListener THEN u
    ELSE <<>>

\* dcfConnection->TriggerFailoverIfNeeded() has returned t;
\* desyncHasOccurred = false
DesyncResolved(st, t) ==
    IF t.hung THEN [st EXCEPT !.dcf = t.conn, !.hung = TRUE]
    ELSE [st EXCEPT !.dcf = t.conn, !.gs.desyncHasOccurred = FALSE]

\* Update, primary branch only: if (desyncHasOccurred) { ... }
DesyncStep(st, primary) ==
    IF primary /\ ~st.hung /\ st.gs.desyncHasOccurred
    THEN DesyncResolved(st, TriggerFailoverIfNeeded(st.dcf, FALSE, "hang"))
    ELSE st

\* Update: if (!isPaused && !reloadingServer) CreateNewFrame(true, false);
NewFrameStep(st, errs) ==
    IF ~st.hung /\ ~st.gs.isPaused /\ ~st.gs.reloadingServer
    THEN CreateNewFrame(st, errs)
    ELSE st

\* Update: SendClientProcUsage when more than 1 s has passed (procDue)
ProcUsageStep(st, procDue, errs) ==
    IF ~st.hung /\ procDue THEN SendClientProcUsage(st, errs) ELSE st

\* Update: if (CheckForGameEnd()) QuitGame();
GameEndStep(st, errs) ==
    IF ~st.hung /\ CheckForGameEnd(st.gs) THEN QuitGame(st, errs) ELSE st

\* Update after the inbound queue has been drained
UpdateAfterDrain(st, primary, procDue, errs) ==
    GameEndStep(
        ProcUsageStep(NewFrameStep(DesyncStep(st, primary), errs), procDue, errs),
        errs)

\* while (dcfConnection->HasIncomingData()) ServerMessage(GetData());
RECURSIVE DispatchDcf(_, _)
DispatchDcf(st, errs) ==
    IF st.hung \/ ~HasIncomingData(st.dcf) THEN st
    ELSE DispatchDcf(ServerMessage([st EXCEPT !.dcf.msgQueue = Tail(@)],
                                   Head(st.dcf.msgQueue), errs),
                     errs)

\* Update, primary branch: dcfConnection->Update() has returned u.
UpdatePrimary(st, u, procDue, errs) ==
    IF u.hung THEN [st EXCEPT !.dcf = u.conn, !.hung = TRUE]
    ELSE UpdateAfterDrain(DispatchDcf([st EXCEPT !.dcf = u.conn], errs),
                          TRUE, procDue, errs)

\* Update with the frame generated before the inbound queue is drained:
\* the variant C29 is tested against.
Update_FrameFirst(st, udp, due, sdk, ub, procDue, errs) ==
    IF st.gs.dcfConnection /\ st.dcf.initialized
    THEN IF DcfUpdate(st.dcf, due, sdk, ub).hung
         THEN [st EXCEPT !.dcf = DcfUpdate(st.dcf, due, sdk, ub).conn,
                         !.hung = TRUE]
         ELSE GameEndStep(
                  ProcUsageStep(
                      DesyncStep(
                          DispatchDcf(
                              NewFrameStep(
                                  [st EXCEPT !.dcf = DcfUpdate(st.dcf, due, sdk, ub).conn],
                                  errs),
                              errs),
                          TRUE),
                      procDue, errs),
                  errs)
    ELSE GameEndStep(
             ProcUsageStep(
                 Dispatch(NewFrameStep(st, errs),
                          IF st.gs.udpListener THEN udp ELSE <<>>, errs),
                 procDue, errs),
             errs)

\* CGameServer::Update: one tick. udp: the queue of the UDP listener.
Update(st, udp, due, sdk, ub, procDue, errs) ==
    IF st.gs.dcfConnection /\ st.dcf.initialized
    THEN UpdatePrimary(st, DcfUpdate(st.dcf, due, sdk, ub), procDue, errs)
    ELSE UpdateAfterDrain(
             Dispatch(st, IF st.gs.udpListener THEN udp ELSE <<>>, errs),
             FALSE, procDue, errs)

FreeSlots(g) == {p \in Slots : ~g.players[p].active}

\* The first free slot (the loop of AddConnection)
FirstFree(g) == CHOOSE p \in FreeSlots(g) : \A q \in FreeSlots(g) : p <= q

\* AddConnection for the local client (AddLocalClient)
AddConnection(st, errs) ==
    IF st.hung THEN st
    ELSE IF FreeSlots(st.gs) = {}
    THEN [st EXCEPT !.gs.localClientNumber = NoPlayerNumber]
    ELSE Transmit([st EXCEPT !.gs.players[FirstFree(st.gs)].active = TRUE,
                             !.gs.players[FirstFree(st.gs)].connection = TRUE,
                             !.gs.localClientNumber = ToUnsigned(FirstFree(st.gs))],
                  ServerPkt("PLAYERNAME"), errs)

\* Initialize after the transport's update has returned u
InitializeAfterPoll(st, u, errs) ==
    IF u.hung THEN [st EXCEPT !.dcf = u.conn, !.hung = TRUE]
    ELSE AddConnection([st EXCEPT !.dcf = u.conn, !.gs.serverFrameNum = 0], errs)

\* Initialize: if AutohostPort is not 0, hostif = make_unique<...>(...).
\* autohost: "none" when the port is 0, else what the constructor left.
AttachAutohost(st, autohost) ==
    IF st.hung \/ autohost = "none" THEN st
    ELSE [st EXCEPT !.gs.hostif = autohost]

\* CGameServer::Initialize, on the thread of the caller
Initialize(st, due, sdk, ub, errs, autohost) ==
    AttachAutohost(
        InitializeAfterPoll(st,
                            IF st.gs.dcfConnection /\ st.dcf.initialized
                            THEN DcfUpdate(st.dcf, due, sdk, ub)
                            ELSE Ret(st.dcf, FALSE, FALSE),
                            errs),
        autohost)

\* serverFrameNum - p.first > SYNCCHECK_TIMEOUT: SYNCCHECK_TIMEOUT is
\* unsigned, so the difference is converted to unsigned
TimedOut(g, f) ==
    UnsignedGreater(ToUnsigned(g.serverFrameNum - f), ToUnsigned(SYNCCHECK_TIMEOUT))

LateFrames(g) == {f \in DOMAIN g.outstandingSyncFrames : TimedOut(g, f)}

\* CGameServer::CheckSync (built with SYNCCHECK). The map is walked in
\* ascending order: the last frame that is late stays in syncWarningFrame.
CheckSync(g) ==
    IF LateFrames(g) = {} THEN g
    ELSE [g EXCEPT !.syncWarningFrame =
                       CHOOSE f \in LateFrames(g) : \A o \in LateFrames(g) : o <= f,
                   !.desyncHasOccurred = TRUE]

\* CGameServer::Reload
Reload(st, errs) ==
    Transmit([st EXCEPT !.gs.reloadingServer = TRUE], ServerPkt("GAME_OVER"), errs)

\* CGameServer::SetReloading
SetReloading(g, reloading) == [g EXCEPT !.reloadingServer = reloading]

\* ReserveSkirmishAIId: the id returned (MAX_AIS: no free id) ...
ReservedId(g) ==
    IF g.freeSkirmishAIs = <<>> THEN MAX_AIS
    ELSE g.freeSkirmishAIs[Len(g.freeSkirmishAIs)]

\* ... and the object afterwards
ReserveSkirmishAIId(g) ==
    IF g.freeSkirmishAIs = <<>> THEN g
    ELSE [g EXCEPT !.freeSkirmishAIs = SubSeq(@, 1, Len(@) - 1)]

FreeSkirmishAIId(g, aiId) ==
    IF aiId < MAX_AIS
    THEN [g EXCEPT !.freeSkirmishAIs = Reverse(Append(@, aiId))]
    ELSE g

----------------------------------------------------------------------------
(* Spec: the server, its thread, the transport and the host program *)

\* What the latest call on the connection did (ConnSpec)
NoHist ==
    [op |-> "none",
     admitted |-> FALSE,   \* SendData went on to SendWithRetry
     sent |-> FALSE,       \* totalPacketsSent was incremented
     failed |-> 0,         \* increments of failedSendAttempts
     hung |-> FALSE,       \* the call never returned
     calls |-> 0,          \* SendData calls so far
     peeks |-> 0]          \* Peek calls so far

\* The threads that call into the connection: the server's own thread
\* (UpdateLoop) and the thread of the host program (Initialize, Reload).
Callers == {"server", "host"}

\* A caller outside TriggerFailoverIfNeeded. inUpdate: the call came from
\* DCFConnection::Update, whose lock_guard holds metricsMutex.
CallerIdle == [pc |-> "idle", inUpdate |-> FALSE]

\* The update workers of one connection (updateThreads)
Workers == 1 .. NUM_UPDATE_THREADS

\* A worker that holds no message
NoPacket == [seq |-> 0, length |-> 0]

AuxInit ==
    /\ callers = [t \in Callers |-> CallerIdle]
    /\ workers = [w \in Workers |-> NoPacket]
    /\ dispatched = <<>>

Init ==
    /\ \E primary \in BOOLEAN :
          /\ gs = GsConstructed(primary)
          /\ dcf = IF primary THEN DcfConstructed ELSE DcfAbsent
    /\ udpQueue = <<>>
    /\ wire = [keyFrames |-> {}]
    /\ serverThread = "running"
    /\ hostThread = "idle"
    /\ workersHung = 0
    /\ delivered = 0
    /\ hist = NoHist
    /\ AuxInit

\* <<due, sdk, ub>> for one DCFConnection::Update, one of each that the
\* code tells apart in the state c.
PollInputs(c) ==
    {in \in BOOLEAN \X SdkMetrics \X RelockOutcomes :
        /\ in[1] \/ c.lastMetricsUpdateSet
        /\ in[1] \/ in[2] = <<>>
        /\ \/ in[2] # <<>>
           \/ c.failedSendAttempts > FailoverThreshold
           \/ in[3] = "hang"}

ErrInputs(g, c) ==
    IF g.dcfConnection /\ c.initialized /\ ~c.muted THEN ErrSeqs
    ELSE {AllSucceed}

\* One iteration of UpdateLoop.
ServerTick ==
    /\ serverThread = "running"
    /\ ~gs.quitServer
    /\ gs.serverFrameNum < MaxFrame
    /\ \E in \in PollInputs(dcf), procDue \in BOOLEAN, errs \in ErrInputs(gs, dcf) :
          LET st == Update(St(gs, dcf, wire, FALSE), udpQueue,
                           in[1], in[2], in[3], procDue, errs)
          IN  /\ gs' = st.gs
              /\ dcf' = st.dcf
              /\ wire' = st.wire
              /\ serverThread' = IF st.hung THEN "hung" ELSE "running"
    /\ udpQueue' = IF gs.dcfConnection /\ dcf.initialized THEN udpQueue ELSE <<>>
    /\ UNCHANGED <<hostThread, workersHung, delivered, hist>>
    /\ UNCHANGED aux

\* The transport hands over a packet: a DCF worker (UpdateThreadLoop) on
\* the primary path, the listener on the fallback path.
Receive ==
    /\ delivered < MaxRecv
    /\ gs.serverFrameNum <= LastRecvFrame
    /\ Len(Inbound(gs, dcf, udpQueue)) < MaxQueue
    /\ \E pkt \in InboundPackets :
          \/ /\ gs.dcfConnection /\ dcf.initialized
             /\ workersHung < NUM_UPDATE_THREADS
             /\ LET r == HandleIncomingMessage(dcf, pkt)
                IN  /\ dcf' = r.conn
                    /\ workersHung' = IF r.hung THEN workersHung + 1 ELSE workersHung
             /\ UNCHANGED udpQueue
          \/ /\ ~gs.dcfConnection /\ gs.udpListener
             /\ udpQueue' = Append(udpQueue, pkt)
             /\ UNCHANGED <<dcf, workersHung>>
    /\ delivered' = delivered + 1
    /\ UNCHANGED <<gs, wire, serverThread, hostThread, hist>>
    /\ UNCHANGED aux

\* The host program calls Initialize(), once.
CallInitialize ==
    /\ hostThread = "idle"
    /\ gs.serverFrameNum <= MaxInitFrame
    /\ \E in \in PollInputs(dcf), errs \in ErrInputs(gs, dcf),
          autohost \in AutohostOutcomes :
          LET st == Initialize(St(gs, dcf, wire, FALSE), in[1], in[2], in[3], errs,
                               autohost)
          IN  /\ gs' = st.gs
              /\ dcf' = st.dcf
              /\ wire' = st.wire
              /\ hostThread' = IF st.hung THEN "hung" ELSE "done"
    /\ UNCHANGED <<udpQueue, serverThread, workersHung, delivered, hist>>
    /\ UNCHANGED aux

\* The host program calls CheckSync().
CallCheckSync ==
    /\ hostThread # "hung"
    /\ gs' = CheckSync(gs)
    /\ UNCHANGED <<dcf, udpQueue, wire, serverThread, hostThread, workersHung,
                   delivered, hist>>
    /\ UNCHANGED aux

\* The host program calls Reload().
CallReload ==
    /\ hostThread # "hung"
    /\ ~gs.reloadingServer
    /\ gs.serverFrameNum <= MaxInitFrame
    /\ \E errs \in ErrInputs(gs, dcf) :
          LET st == Reload(St(gs, dcf, wire, FALSE), errs)
          IN  /\ gs' = st.gs
              /\ dcf' = st.dcf
              /\ wire' = st.wire
              /\ hostThread' = IF st.hung THEN "hung" ELSE hostThread
    /\ UNCHANGED <<udpQueue, serverThread, workersHung, delivered, hist>>
    /\ UNCHANGED aux

\* The host program calls SetReloading(false).
CallSetReloading ==
    /\ hostThread # "hung"
    /\ gs.reloadingServer
    /\ gs' = SetReloading(gs, FALSE)
    /\ UNCHANGED <<dcf, udpQueue, wire, serverThread, hostThread, workersHung,
                   delivered, hist>>
    /\ UNCHANGED aux

Next ==
    \/ ServerTick
    \/ Receive
    \/ CallInitialize
    \/ CallCheckSync
    \/ CallReload
    \/ CallSetReloading

Spec == Init /\ [][Next]_vars


----------------------------------------------------------------------------
(* ConnSpec: one DCFConnection, its callers and the SDK *)

ConnInit ==
    /\ gs = GsConstructed(TRUE)
    /\ dcf = DcfConstructed
    /\ udpQueue = <<>>
    /\ wire = [keyFrames |-> {}]
    /\ serverThread = "running"
    /\ hostThread = "idle"
    /\ workersHung = 0
    /\ delivered = 0
    /\ hist = NoHist
    /\ AuxInit

\* A caller hands a packet of len bytes to SendData.
CSendData ==
    /\ hist.calls < MaxSends
    /\ \E len \in SendLengths, errs \in ErrSeqs :
          LET r == SendData(dcf, len, errs)
          IN  /\ dcf' = r.conn
              /\ hist' = [op |-> "SendData",
                          admitted |-> SendAdmitted(dcf, len),
                          sent |-> r.sent,
                          failed |-> r.failed,
                          hung |-> r.hung,
                          calls |-> hist.calls + 1]
    /\ UNCHANGED <<gs, udpQueue, wire, serverThread, hostThread, workersHung,
                   delivered>>
    /\ UNCHANGED aux

\* The owner calls Update().
CUpdate ==
    /\ \E in \in PollInputs(dcf) :
          LET r == DcfUpdate(dcf, in[1], in[2], in[3])
          IN  /\ dcf' = r.conn
              /\ hist' = [NoHist EXCEPT !.op = "Update", !.hung = r.hung,
                                        !.calls = hist.calls]
    /\ UNCHANGED <<gs, udpQueue, wire, serverThread, hostThread, workersHung,
                   delivered>>
    /\ UNCHANGED aux

\* The owner calls Unmute().
CUnmute ==
    /\ dcf' = Unmute(dcf)
    /\ hist' = [NoHist EXCEPT !.op = "Unmute", !.calls = hist.calls]
    /\ UNCHANGED <<gs, udpQueue, wire, serverThread, hostThread, workersHung,
                   delivered>>
    /\ UNCHANGED aux

\* The owner calls Close(flush).
CClose ==
    /\ dcf.stopped < MaxCloses
    /\ \E flush \in BOOLEAN : dcf' = Close(dcf, flush)
    /\ hist' = [NoHist EXCEPT !.op = "Close", !.calls = hist.calls]
    /\ UNCHANGED <<gs, udpQueue, wire, serverThread, hostThread, workersHung,
                   delivered>>
    /\ UNCHANGED aux

ConnNext ==
    \/ CSendData
    \/ CUpdate
    \/ CUnmute
    \/ CClose

ConnSpec == ConnInit /\ [][ConnNext]_vars

----------------------------------------------------------------------------
(* FailoverSpec: TriggerFailoverIfNeeded statement by statement, entered by *)
(* two threads on one connection                                            *)

MaxFailures == 8       \* FailoverSpec: failedSendAttempts is explored up to this
MaxFailovers == 3      \* FailoverSpec: failovers in one run

\* metricsMutex is held by a caller other than t (inside Update).
MutexTaken(t) == \E o \in Callers \ {t} : callers[o].inUpdate

\* SendData on thread t has reached SendWithRetry: dcf_client_send_message
\* fails with a network error and the loop body ends with
\* failedSendAttempts++.
FSendFails(t) ==
    /\ callers[t].pc = "idle"
    /\ SendAdmitted(dcf, InboundLength)
    /\ dcf.failedSendAttempts < MaxFailures
    /\ dcf' = AttemptFailed(SdkSend(dcf, "DCF_NETWORK_ERROR"), 0, "network_down").conn
    /\ UNCHANGED <<gs, udpQueue, wire, serverThread, hostThread, workersHung,
                   delivered, hist, callers, workers, dispatched>>

\* Thread t enters TriggerFailoverIfNeeded and evaluates its condition:
\* from SendData or SendWithRetry, or (fromUpdate) from Update, which has
\* taken metricsMutex. When the condition is false the call returns.
FCheck(t) ==
    /\ callers[t].pc = "idle"
    /\ dcf.failovers < MaxFailovers
    /\ \E fromUpdate \in BOOLEAN :
          /\ fromUpdate => ~MutexTaken(t) /\ ~dcf.metricsMutexStuck
          /\ callers' = [callers EXCEPT ![t] =
                            IF FailoverDue(dcf)
                            THEN [pc |-> "passed", inUpdate |-> fromUpdate]
                            ELSE CallerIdle]
    /\ UNCHANGED <<gs, dcf, udpQueue, wire, serverThread, hostThread,
                   workersHung, delivered, hist, workers, dispatched>>

\* Thread t calls dcf_redundancy_trigger_failover.
FInvoke(t) ==
    /\ callers[t].pc = "passed"
    /\ dcf' = SdkFailover(dcf)
    /\ callers' = [callers EXCEPT ![t].pc = "invoked"]
    /\ UNCHANGED <<gs, udpQueue, wire, serverThread, hostThread, workersHung,
                   delivered, hist, workers, dispatched>>

\* Thread t locks metricsMutex and resets failedSendAttempts. A thread that
\* came from Update holds the mutex already; another thread waits while
\* the mutex is taken.
FReset(t) ==
    /\ callers[t].pc = "invoked"
    /\ callers[t].inUpdate \/ ~MutexTaken(t)
    /\ \E ub \in RelockOutcomes :
          LET r == FailoverAndReset(dcf, callers[t].inUpdate, ub)
          IN  /\ dcf' = r.conn
              /\ callers' = [callers EXCEPT ![t] =
                                IF r.hung THEN [@ EXCEPT !.pc = "hung"]
                                ELSE CallerIdle]
    /\ UNCHANGED <<gs, udpQueue, wire, serverThread, hostThread, workersHung,
                   delivered, hist, workers, dispatched>>

FailoverNext ==
    \/ CUnmute
    \/ \E t \in Callers : FSendFails(t)
    \/ \E t \in Callers : FCheck(t)
    \/ \E t \in Callers : FInvoke(t)
    \/ \E t \in Callers : FReset(t)

FailoverSpec == ConnInit /\ [][FailoverNext]_vars

----------------------------------------------------------------------------
(* LinkSpec: one DCFConnection with its update workers, the owner that     *)
(* sends, peeks and takes packets, and the SDK                             *)

MaxLinkRecv == 2    \* LinkSpec: messages the SDK hands to the workers
MaxLinkSends == 2   \* LinkSpec: SendData calls in one run
MaxPeeks == 1       \* LinkSpec: Peek calls in one run
NumLinkWorkers == 2 \* LinkSpec: update workers that receive

\* lengths of the packets handed in; -1 stands for a null pointer
LinkLengths == {-1, 0, 1, MaxPacketLength, MaxPacketLength + 1}
PeekArgs == {0, 1, QueueCapacity}

\* what the SDK answers to the sends of one SendData in LinkSpec
LinkErrSeqs == {AllSucceed} \cup {[i \in 1 .. DefaultMaxRetries |-> e] :
                                      e \in {"DCF_TIMEOUT", "DCF_OTHER"}}

\* the workers that receive in LinkSpec
LinkWorkers == {w \in Workers : w <= NumLinkWorkers}

\* The owner calls Unmute().
LUnmute ==
    /\ dcf.muted
    /\ dcf' = Unmute(dcf)
    /\ UNCHANGED <<gs, udpQueue, wire, serverThread, hostThread, workersHung,
                   delivered, hist, callers, workers, dispatched>>

\* The owner hands a packet of len bytes to SendData; the SDK answers errs.
LSendData(len, errs) ==
    /\ hist.calls < MaxLinkSends
    /\ dcf' = SendData(dcf, len, errs).conn
    /\ hist' = [hist EXCEPT !.calls = @ + 1]
    /\ UNCHANGED <<gs, udpQueue, wire, serverThread, hostThread, workersHung,
                   delivered, callers, workers, dispatched>>

\* UpdateThreadLoop on worker w: dcf_client_receive_message succeeds and
\* returns the next message of the transport, of len bytes. With a null
\* data pointer the worker goes round its loop again.
WReceive(w, len) ==
    /\ dcf.initialized
    /\ workers[w] = NoPacket
    /\ delivered < MaxLinkRecv
    /\ delivered' = delivered + 1
    /\ workers' = IF len = -1 THEN workers
                  ELSE [workers EXCEPT ![w] = [seq |-> delivered + 1, length |-> len]]
    /\ UNCHANGED <<gs, dcf, udpQueue, wire, serverThread, hostThread,
                   workersHung, hist, callers, dispatched>>

\* UpdateThreadLoop on worker w: HandleIncomingMessage(data, length).
WHandle(w) ==
    /\ workers[w] # NoPacket
    /\ dcf' = HandleIncomingMessage(dcf, workers[w]).conn
    /\ workers' = [workers EXCEPT ![w] = NoPacket]
    /\ UNCHANGED <<gs, udpQueue, wire, serverThread, hostThread, workersHung,
                   delivered, hist, callers, dispatched>>

\* The owner calls Peek(ahead).
LPeek(ahead) ==
    /\ hist.peeks < MaxPeeks
    /\ dcf' = Peek(dcf, ahead)
    /\ hist' = [hist EXCEPT !.peeks = @ + 1]
    /\ UNCHANGED <<gs, udpQueue, wire, serverThread, hostThread, workersHung,
                   delivered, callers, workers, dispatched>>

\* One round of the loop of CGameServer::Update: GetData, then ServerMessage
\* with the packet.
LGetData ==
    /\ HasIncomingData(dcf)
    /\ dcf' = GetData(dcf)
    /\ dispatched' = Append(dispatched, Head(dcf.msgQueue).seq)
    /\ UNCHANGED <<gs, udpQueue, wire, serverThread, hostThread, workersHung,
                   delivered, hist, callers, workers>>

\* PacketSpec: the packets going in and out of one connection
PacketNext ==
    \/ LUnmute
    \/ \E len \in LinkLengths, errs \in LinkErrSeqs : LSendData(len, errs)
    \/ \E w \in LinkWorkers, len \in LinkLengths : WReceive(w, len)
    \/ \E w \in LinkWorkers : WHandle(w)

PacketSpec == ConnInit /\ [][PacketNext]_vars

\* LinkSpec: the same, with the owner peeking and taking packets
LinkNext ==
    \/ PacketNext
    \/ \E ahead \in PeekArgs : LPeek(ahead)
    \/ LGetData

LinkSpec == ConnInit /\ [][LinkNext]_vars

----------------------------------------------------------------------------
(* GameSpec: the handlers of one CGameServer called one at a time, as       *)
(* under gameServerMutex                                                    *)

MaxRejects == 5        \* GameSpec: rejections of one player number

SpeedRequests == {50, 100, 200}
GameJoinPackets == {NewPlayerPkt(1, spec, 0) : spec \in BOOLEAN}
GameSyncPackets == {SyncResponsePkt(1, 0, 1)}
GameChatPackets == {ChatPkt(p, text) : p \in {1, SERVER_PLAYER}, text \in {"", "hi"}}

\* What the latest handler was, what it was given, what it passed to
\* SendData or Broadcast and over which paths, what it sent to the autohost,
\* at which indices outside the per-player arrays it wrote
GameHist(op, arg, st) ==
    [op |-> op, arg |-> arg, out |-> st.out, paths |-> st.paths, host |-> st.host,
     wild |-> st.wild]

\* The constructor has read AllowSpectatorJoin and
\* WhiteListAdditionalPlayers from the configuration.
GameInit ==
    /\ \E primary, allow, white \in BOOLEAN :
          /\ gs = [GsConstructed(primary) EXCEPT
                      !.allowSpecJoin = allow,
                      !.whiteListAdditionalPlayers = white]
          /\ dcf = IF primary THEN DcfConstructed ELSE DcfAbsent
    /\ udpQueue = <<>>
    /\ wire = [keyFrames |-> {}]
    /\ serverThread = "running"
    /\ hostThread = "idle"
    /\ workersHung = 0
    /\ delivered = 0
    /\ hist = GameHist("none", 0, St(gs, dcf, wire, FALSE))
    /\ AuxInit

\* The handler has returned st.
Handled(st, op, arg) ==
    /\ gs' = st.gs
    /\ dcf' = st.dcf
    /\ wire' = st.wire
    /\ hist' = GameHist(op, arg, st)
    /\ UNCHANGED <<udpQueue, serverThread, hostThread, workersHung, delivered,
                   callers, workers, dispatched>>

GUserSpeedChange(newSpeed) ==
    \E errs \in ErrInputs(gs, dcf) :
        Handled(UserSpeedChange(St(gs, dcf, wire, FALSE), newSpeed, errs),
                "UserSpeedChange", newSpeed)

GUpdateSpeedControl ==
    \E errs \in ErrInputs(gs, dcf) :
        Handled(UpdateSpeedControl(St(gs, dcf, wire, FALSE), gs.curSpeedCtrl, errs),
                "UpdateSpeedControl", gs.curSpeedCtrl)

\* ServerMessage, NETMSG_PING: dcfConnection->ProcessMetrics()
GPing(sdk) ==
    /\ gs.dcfConnection
    /\ Handled(St(gs, ProcessMetrics(dcf, sdk, FALSE, "hang").conn, wire, FALSE),
               "Ping", sdk)

GPauseGame(pause, fromServer) ==
    \E errs \in ErrInputs(gs, dcf) :
        Handled(PauseGame(St(gs, dcf, wire, FALSE), pause, fromServer, errs),
                "PauseGame", pause)

GSetGamePausable(arg) ==
    /\ gs' = SetGamePausable(gs, arg)
    /\ hist' = GameHist("SetGamePausable", arg, St(gs, dcf, wire, FALSE))
    /\ UNCHANGED <<dcf, udpQueue, wire, serverThread, hostThread, workersHung,
                   delivered, callers, workers, dispatched>>

\* ServerMessage, NETMSG_CREATE_NEWPLAYER
GJoin(pkt) ==
    /\ gs.rejectedConnections[pkt.playerNum] < MaxRejects
    /\ \E errs \in ErrInputs(gs, dcf) :
          Handled(ServerMessage(St(gs, dcf, wire, FALSE), pkt, errs),
                  "CREATE_NEWPLAYER", pkt.spectator)

\* ServerMessage, NETMSG_SYNCRESPONSE
GSyncResponse(pkt) ==
    \E errs \in ErrInputs(gs, dcf) :
        Handled(ServerMessage(St(gs, dcf, wire, FALSE), pkt, errs),
                "SYNCRESPONSE", pkt.checksum)

\* ServerMessage, NETMSG_CHAT
GChat(pkt) ==
    \E errs \in ErrInputs(gs, dcf) :
        Handled(ServerMessage(St(gs, dcf, wire, FALSE), pkt, errs),
                "CHAT", pkt.text)

\* The host program calls Initialize(), once.
GInitialize(autohost) ==
    /\ hostThread = "idle"
    /\ \E in \in PollInputs(dcf), errs \in ErrInputs(gs, dcf) :
          /\ gs' = Initialize(St(gs, dcf, wire, FALSE), in[1], in[2], in[3], errs,
                              autohost).gs
          /\ dcf' = Initialize(St(gs, dcf, wire, FALSE), in[1], in[2], in[3], errs,
                               autohost).dcf
          /\ wire' = Initialize(St(gs, dcf, wire, FALSE), in[1], in[2], in[3], errs,
                                autohost).wire
          /\ hostThread' = IF Initialize(St(gs, dcf, wire, FALSE), in[1], in[2],
                                         in[3], errs, autohost).hung
                           THEN "hung" ELSE "done"
          /\ hist' = GameHist("Initialize", autohost,
                              Initialize(St(gs, dcf, wire, FALSE), in[1], in[2],
                                         in[3], errs, autohost))
    /\ UNCHANGED <<udpQueue, serverThread, workersHung, delivered, callers,
                   workers, dispatched>>

GameNext ==
    \/ \E newSpeed \in SpeedRequests : GUserSpeedChange(newSpeed)
    \/ GUpdateSpeedControl
    \/ \E sdk \in SdkMetrics : GPing(sdk)
    \/ \E pause, fromServer \in BOOLEAN : GPauseGame(pause, fromServer)
    \/ \E arg \in BOOLEAN : GSetGamePausable(arg)
    \/ \E pkt \in GameJoinPackets : GJoin(pkt)
    \/ \E pkt \in GameSyncPackets : GSyncResponse(pkt)
    \/ \E pkt \in GameChatPackets : GChat(pkt)
    \/ \E autohost \in AutohostOutcomes : GInitialize(autohost)

GameSpec == GameInit /\ [][GameNext]_vars

----------------------------------------------------------------------------
(* AiSpec: the skirmish-AI ids of one CGameServer and the callers that hold *)
(* them                                                                     *)

AiIds == 0 .. (MAX_AIS - 1)

\* What the latest call was and returned, and how often each id is held by
\* a caller (reserved and not freed since)
AiHist(op, arg, held) == [op |-> op, arg |-> arg, held |-> held]

AiInit ==
    /\ \E primary \in BOOLEAN :
          /\ gs = GsConstructed(primary)
          /\ dcf = IF primary THEN DcfConstructed ELSE DcfAbsent
    /\ udpQueue = <<>>
    /\ wire = [keyFrames |-> {}]
    /\ serverThread = "running"
    /\ hostThread = "idle"
    /\ workersHung = 0
    /\ delivered = 0
    /\ hist = AiHist("none", 0, [id \in AiIds |-> 0])
    /\ AuxInit

AReserve ==
    /\ gs' = ReserveSkirmishAIId(gs)
    /\ hist' = AiHist("Reserve", ReservedId(gs),
                      IF ReservedId(gs) \in AiIds
                      THEN [hist.held EXCEPT ![ReservedId(gs)] = @ + 1]
                      ELSE hist.held)
    /\ UNCHANGED <<dcf, udpQueue, wire, serverThread, hostThread, workersHung,
                   delivered, callers, workers, dispatched>>

\* A caller frees an id it holds.
AFree(aiId) ==
    /\ hist.held[aiId] > 0
    /\ gs' = FreeSkirmishAIId(gs, aiId)
    /\ hist' = AiHist("Free", aiId, [hist.held EXCEPT ![aiId] = @ - 1])
    /\ UNCHANGED <<dcf, udpQueue, wire, serverThread, hostThread, workersHung,
                   delivered, callers, workers, dispatched>>

\* A caller hands back MAX_AIS, the value Reserve returns when no id is free.
AFreeNone ==
    /\ hist.op = "Reserve" /\ hist.arg = MAX_AIS
    /\ gs' = FreeSkirmishAIId(gs, MAX_AIS)
    /\ hist' = AiHist("Free", MAX_AIS, hist.held)
    /\ UNCHANGED <<dcf, udpQueue, wire, serverThread, hostThread, workersHung,
                   delivered, callers, workers, dispatched>>

AiNext ==
    \/ AReserve
    \/ \E aiId \in AiIds : AFree(aiId)
    \/ AFreeNone

AiSpec == AiInit /\ [][AiNext]_vars
----------------------------------------------------------------------------
(* ShutdownSpec: the update workers of one DCFConnection, step by step, and *)
(* the owner that closes it; nobody drains the inbound queue                *)

\* A worker between dcf_client_receive_message and the end of
\* HandleIncomingMessage. pc "push": about to call msgQueue.push;
\* pc "sleep": in sleep_for(10 ms) after a push that found the queue full.
Holding(pc) == [seq |-> 1, length |-> 1, pc |-> pc]

\* A worker whose UpdateThreadLoop has returned
Exited == [seq |-> 0, length |-> 0, pc |-> "exited"]

\* while (initialized): a message is received.
KReceive(w) ==
    /\ workers[w] = NoPacket
    /\ dcf.initialized
    /\ workers' = [workers EXCEPT ![w] = Holding("push")]
    /\ UNCHANGED <<gs, dcf, udpQueue, wire, serverThread, hostThread,
                   workersHung, delivered, hist, callers, dispatched>>

\* msgQueue.push succeeds; the counters are updated; back to the loop test.
KPush(w) ==
    /\ workers[w] = Holding("push")
    /\ Len(dcf.msgQueue) < QueueCapacity
    /\ dcf' = HandleIncomingMessage(dcf, [seq |-> 1, length |-> 1]).conn
    /\ workers' = [workers EXCEPT ![w] = NoPacket]
    /\ UNCHANGED <<gs, udpQueue, wire, serverThread, hostThread,
                   workersHung, delivered, hist, callers, dispatched>>

\* msgQueue.push fails, the queue being full: sleep_for(10 ms).
KPushFull(w) ==
    /\ workers[w] = Holding("push")
    /\ Len(dcf.msgQueue) >= QueueCapacity
    /\ workers' = [workers EXCEPT ![w] = Holding("sleep")]
    /\ UNCHANGED <<gs, dcf, udpQueue, wire, serverThread, hostThread,
                   workersHung, delivered, hist, callers, dispatched>>

\* The sleep is over: while (!msgQueue.push(packet)) again.
KWake(w) ==
    /\ workers[w] = Holding("sleep")
    /\ workers' = [workers EXCEPT ![w] = Holding("push")]
    /\ UNCHANGED <<gs, dcf, udpQueue, wire, serverThread, hostThread,
                   workersHung, delivered, hist, callers, dispatched>>

\* while (initialized) finds the flag cleared: the thread function returns.
KExit(w) ==
    /\ workers[w] = NoPacket
    /\ ~dcf.initialized
    /\ workers' = [workers EXCEPT ![w] = Exited]
    /\ UNCHANGED <<gs, dcf, udpQueue, wire, serverThread, hostThread,
                   workersHung, delivered, hist, callers, dispatched>>

\* The owner destroys the connection: ~DCFConnection calls Close(true) and
\* then joins the workers.
KClose ==
    /\ dcf.stopped = 0
    /\ dcf' = Close(dcf, TRUE)
    /\ UNCHANGED <<gs, udpQueue, wire, serverThread, hostThread,
                   workersHung, delivered, hist, callers, workers, dispatched>>

WorkerStep(w) ==
    KReceive(w) \/ KPush(w) \/ KPushFull(w) \/ KWake(w) \/ KExit(w)

ShutdownNext ==
    \/ \E w \in LinkWorkers : KReceive(w)
    \/ \E w \in LinkWorkers : KPush(w)
    \/ \E w \in LinkWorkers : KPushFull(w)
    \/ \E w \in LinkWorkers : KWake(w)
    \/ \E w \in LinkWorkers : KExit(w)
    \/ KClose

\* Every worker thread that can run does run; the owner need not close.
ShutdownSpec ==
    /\ ConnInit
    /\ [][ShutdownNext]_vars
    /\ \A w \in LinkWorkers : WF_vars(WorkerStep(w))
----------------------------------------------------------------------------
(* RetrySpec: one caller sends packet after packet over an unmuted          *)
(* DCFConnection; the SDK answers each transmission as it likes             *)

MaxRetryCalls == 4     \* RetrySpec: SendData calls in one run

\* SendData(packet) with the SDK answering errs. hist.failed: increments of
\* failedSendAttempts since the last packet that was transmitted.
RSendData(errs) ==
    /\ hist.calls < MaxRetryCalls
    /\ dcf' = SendData(dcf, InboundLength, errs).conn
    /\ hist' = [hist EXCEPT
                   !.op = "SendData",
                   !.admitted = SendAdmitted(dcf, InboundLength),
                   !.sent = SendData(dcf, InboundLength, errs).sent,
                   !.failed = IF SendData(dcf, InboundLength, errs).sent THEN 0
                              ELSE @ + SendData(dcf, InboundLength, errs).failed,
                   !.calls = @ + 1]
    /\ UNCHANGED <<gs, udpQueue, wire, serverThread, hostThread, workersHung,
                   delivered, callers, workers, dispatched>>

RetryNext ==
    \/ LUnmute
    \/ \E errs \in ErrSeqs : RSendData(errs)

RetrySpec == ConnInit /\ [][RetryNext]_vars
----------------------------------------------------------------------------
(* OwnerSpec: the tick of the server thread and Initialize() on the thread  *)
(* of the host program, statement by statement                              *)

MaxOwnerFrame == 3     \* OwnerSpec: frames generated in one run

\* The latest mutation of the server's state: which thread made it and
\* whether that thread held gameServerMutex. frameRead: the value
\* serverFrameNum++ has read and not yet written back.
OwnerHist(op, writer, locked, frameRead) ==
    [op |-> op, writer |-> writer, locked |-> locked, frameRead |-> frameRead]

ThreadAt(pc) == [pc |-> pc, inUpdate |-> FALSE]

\* gameServerMutex is taken by UpdateLoop and by Update and by nobody else.
MutexHolder == IF callers["server"].pc = "idle" THEN "none" ELSE "server"

OwnerInit ==
    /\ \E primary \in BOOLEAN :
          /\ gs = GsConstructed(primary)
          /\ dcf = IF primary THEN DcfConstructed ELSE DcfAbsent
    /\ udpQueue = <<>>
    /\ wire = [keyFrames |-> {}]
    /\ serverThread = "running"
    /\ hostThread = "idle"
    /\ workersHung = 0
    /\ delivered = 0
    /\ hist = OwnerHist("none", "none", FALSE, -1)
    /\ AuxInit

\* Update up to the test of isPaused: the transport's update, the drain of
\* the inbound queue and the desync block.
UpdateDrain(st, udp, due, sdk, ub, errs) ==
    IF st.gs.dcfConnection /\ st.dcf.initialized
    THEN IF DcfUpdate(st.dcf, due, sdk, ub).hung
         THEN [st EXCEPT !.dcf = DcfUpdate(st.dcf, due, sdk, ub).conn,
                         !.hung = TRUE]
         ELSE DesyncStep(
                  DispatchDcf([st EXCEPT !.dcf = DcfUpdate(st.dcf, due, sdk, ub).conn],
                              errs),
                  TRUE)
    ELSE Dispatch(st, IF st.gs.udpListener THEN udp ELSE <<>>, errs)

\* The server thread has run a part of its tick and reached pc.
ServerAt(st, op, pc) ==
    /\ gs' = st.gs
    /\ dcf' = st.dcf
    /\ wire' = st.wire
    /\ serverThread' = IF st.hung THEN "hung" ELSE "running"
    /\ callers' = [callers EXCEPT !["server"] = ThreadAt(IF st.hung THEN "hung" ELSE pc)]
    /\ hist' = [hist EXCEPT !.op = op, !.writer = "server", !.locked = TRUE]

\* UpdateLoop takes gameServerMutex and Update runs up to the frame.
OTickBegin ==
    /\ callers["server"].pc = "idle"
    /\ serverThread = "running"
    /\ ~gs.quitServer
    /\ gs.serverFrameNum < MaxOwnerFrame
    /\ \E in \in PollInputs(dcf), errs \in ErrInputs(gs, dcf) :
          ServerAt(UpdateDrain(St(gs, dcf, wire, FALSE), udpQueue,
                               in[1], in[2], in[3], errs),
                   "TickBegin", "drained")
    /\ udpQueue' = IF gs.dcfConnection /\ dcf.initialized THEN udpQueue ELSE <<>>
    /\ UNCHANGED <<hostThread, workersHung, delivered, workers, dispatched>>

\* CreateNewFrame: serverFrameNum++ reads the counter.
OFrameRead ==
    /\ callers["server"].pc = "drained"
    /\ callers' = [callers EXCEPT !["server"] = ThreadAt("read")]
    /\ hist' = [hist EXCEPT !.op = "FrameRead", !.frameRead = gs.serverFrameNum]
    /\ UNCHANGED <<gs, dcf, udpQueue, wire, serverThread, hostThread,
                   workersHung, delivered, workers, dispatched>>

\* The state the rest of the tick works on: the counter as it was read,
\* when the tick generates a frame.
FrameInput(g, read) ==
    IF ~g.isPaused /\ ~g.reloadingServer
    THEN [g EXCEPT !.serverFrameNum = read]
    ELSE g

\* The rest of Update: the counter is written back, the frame goes out,
\* the CPU report, the test for the end of the game; the mutex is released.
OTickEnd ==
    /\ callers["server"].pc = "read"
    /\ \E procDue \in BOOLEAN, errs \in ErrInputs(gs, dcf) :
          ServerAt(GameEndStep(
                       ProcUsageStep(
                           NewFrameStep(St(FrameInput(gs, hist.frameRead), dcf,
                                           wire, FALSE),
                                        errs),
                           procDue, errs),
                       errs),
                   "TickEnd", "idle")
    /\ UNCHANGED <<udpQueue, hostThread, workersHung, delivered, workers,
                   dispatched>>

\* The host thread has run a part of Initialize and reached pc.
HostAt(st, op, pc, mutated) ==
    /\ gs' = st.gs
    /\ dcf' = st.dcf
    /\ wire' = st.wire
    /\ hostThread' = IF st.hung THEN "hung" ELSE IF pc = "done" THEN "done" ELSE "idle"
    /\ callers' = [callers EXCEPT !["host"] = ThreadAt(IF st.hung THEN "hung" ELSE pc)]
    /\ hist' = IF mutated
               THEN [hist EXCEPT !.op = op, !.writer = "host",
                                 !.locked = (MutexHolder = "host")]
               ELSE [hist EXCEPT !.op = op]
    /\ UNCHANGED <<udpQueue, serverThread, workersHung, delivered, workers,
                   dispatched>>

\* The transport's update at the head of Initialize has returned u.
InitPolled(st, u) == [st EXCEPT !.dcf = u.conn, !.hung = u.hung]

\* Initialize: dcfConnection->Update() or udpListener->UpdateConnections()
OInitPoll ==
    /\ callers["host"].pc = "idle"
    /\ hostThread = "idle"
    /\ \E in \in PollInputs(dcf) :
          HostAt(InitPolled(St(gs, dcf, wire, FALSE),
                            IF gs.dcfConnection /\ dcf.initialized
                            THEN DcfUpdate(dcf, in[1], in[2], in[3])
                            ELSE Ret(dcf, FALSE, FALSE)),
                 "InitPoll", "polled", FALSE)

\* Initialize: serverFrameNum = 0
OInitFrame ==
    /\ callers["host"].pc = "polled"
    /\ HostAt(St([gs EXCEPT !.serverFrameNum = 0], dcf, wire, FALSE),
              "InitFrame", "frameReset", TRUE)

\* Initialize: AddLocalClient(...), and the autohost interface
OInitClient ==
    /\ callers["host"].pc = "frameReset"
    /\ \E errs \in ErrInputs(gs, dcf), autohost \in AutohostOutcomes :
          HostAt(AttachAutohost(AddConnection(St(gs, dcf, wire, FALSE), errs),
                                autohost),
                 "InitClient", "done", TRUE)

OwnerNext ==
    \/ OTickBegin
    \/ OFrameRead
    \/ OTickEnd
    \/ OInitPoll
    \/ OInitFrame
    \/ OInitClient
    \/ Receive

OwnerSpec == OwnerInit /\ [][OwnerNext]_vars
----------------------------------------------------------------------------
(* TickSpec: the server thread ticks while the transport delivers packets   *)
(* and the host program reloads; Initialize() is not called                 *)

MaxTickFrame == 6      \* TickSpec: frames generated in one run

\* One iteration of UpdateLoop, within the first frames
TickServerTick ==
    /\ gs.serverFrameNum < MaxTickFrame
    /\ ServerTick

TickNext ==
    \/ TickServerTick
    \/ Receive
    \/ CallReload
    \/ CallSetReloading

TickSpec == Init /\ [][TickNext]_vars
----------------------------------------------------------------------------
(* QueueSpec: the update workers of one DCFConnection pushing to msgQueue,  *)
(* step by step, and the server thread taking packets out                   *)

MaxQueuePops == 2      \* QueueSpec: packets the server thread takes out
MaxLostPushes == 1     \* QueueSpec: pushes that lose their packet

\* The packets counted as received that are neither queued nor taken out
LostPackets == dcf.totalPacketsReceived - Len(dcf.msgQueue) - Len(dispatched)

\* The threads inside msgQueue.push (or between two tries of it)
Pushers == {w \in LinkWorkers : workers[w] \in {Holding("push"), Holding("sleep")}}

\* msgQueue.push on worker w while another worker is inside push as well:
\* both read the same write index, the slot is written twice and one packet
\* is lost (a data race on the single-producer queue; KPush is the outcome
\* in which both packets are stored). The counters are updated all the same.
QPushLost(w) ==
    /\ workers[w] = Holding("push")
    /\ Pushers \ {w} # {}
    /\ LostPackets < MaxLostPushes
    /\ Len(dcf.msgQueue) < QueueCapacity
    /\ dcf' = Counted(dcf, [seq |-> 1, length |-> 1]).conn
    /\ workers' = [workers EXCEPT ![w] = NoPacket]
    /\ UNCHANGED <<gs, udpQueue, wire, serverThread, hostThread,
                   workersHung, delivered, hist, callers, dispatched>>

\* One round of the drain loop of CGameServer::Update on the server thread:
\* GetData pops the head.
QGetData ==
    /\ Len(dispatched) < MaxQueuePops
    /\ HasIncomingData(dcf)
    /\ dcf' = GetData(dcf)
    /\ dispatched' = Append(dispatched, Head(dcf.msgQueue).seq)
    /\ UNCHANGED <<gs, udpQueue, wire, serverThread, hostThread, workersHung,
                   delivered, hist, callers, workers>>

QueueNext ==
    \/ \E w \in LinkWorkers : KReceive(w)
    \/ \E w \in LinkWorkers : KPush(w)
    \/ \E w \in LinkWorkers : KPushFull(w)
    \/ \E w \in LinkWorkers : KWake(w)
    \/ \E w \in LinkWorkers : QPushLost(w)
    \/ QGetData

QueueSpec == ConnInit /\ [][QueueNext]_vars
----------------------------------------------------------------------------
(* MetricsSpec: the accesses of two threads to metrics.failedSendAttempts,  *)
(* statement by statement                                                   *)

\* Thread t holds metricsMutex: only Update's lock_guard spans a call.
HoldsMetricsMutex(t) == callers[t].inUpdate

\* A thread inside metrics.failedSendAttempts++ in SendWithRetry, having
\* read the counter as n and not yet written n + 1.
Incrementing(n) == [pc |-> "incr", inUpdate |-> FALSE, read |-> n]

\* SendWithRetry on thread t: dcf_client_send_message fails with a network
\* error, and metrics.failedSendAttempts++ reads the counter.
MIncrRead(t) ==
    /\ callers[t].pc = "idle"
    /\ SendAdmitted(dcf, InboundLength)
    /\ dcf.sends < MaxFailures
    /\ dcf' = SdkSend(dcf, "DCF_NETWORK_ERROR")
    /\ callers' = [callers EXCEPT ![t] = Incrementing(dcf.failedSendAttempts)]
    /\ UNCHANGED <<gs, udpQueue, wire, serverThread, hostThread, workersHung,
                   delivered, hist, workers, dispatched>>

\* metrics.failedSendAttempts++ writes the counter back.
MIncrWrite(t) ==
    /\ callers[t].pc = "incr"
    /\ dcf' = [dcf EXCEPT !.failedSendAttempts = callers[t].read + 1]
    /\ callers' = [callers EXCEPT ![t] = CallerIdle]
    /\ UNCHANGED <<gs, udpQueue, wire, serverThread, hostThread, workersHung,
                   delivered, hist, workers, dispatched>>

MetricsNext ==
    \/ CUnmute
    \/ \E t \in Callers : MIncrRead(t)
    \/ \E t \in Callers : MIncrWrite(t)
    \/ \E t \in Callers : FCheck(t)
    \/ \E t \in Callers : FInvoke(t)
    \/ \E t \in Callers : FReset(t)

MetricsSpec == ConnInit /\ [][MetricsNext]_vars
----------------------------------------------------------------------------
(* SpeedSpec: the speed handlers of CGameServer applied to speed limits     *)
(* drawn from a set. Speeds are in hundredths (100 stands for 1.0f). The    *)
(* constructor sets minUserSpeed = maxUserSpeed = 1.0f; the limits of the   *)
(* game setup are inputs here.                                              *)

MinSpeeds == {10, 100}
MaxSpeeds == {100, 200}

SpeedInit ==
    /\ \E primary \in BOOLEAN, lo \in MinSpeeds, hi \in MaxSpeeds :
          /\ gs = [GsConstructed(primary) EXCEPT !.minUserSpeed = lo,
                                                 !.maxUserSpeed = hi]
          /\ dcf = IF primary THEN DcfConstructed ELSE DcfAbsent
    /\ udpQueue = <<>>
    /\ wire = [keyFrames |-> {}]
    /\ serverThread = "running"
    /\ hostThread = "idle"
    /\ workersHung = 0
    /\ delivered = 0
    /\ hist = GameHist("none", 0, St(gs, dcf, wire, FALSE))
    /\ AuxInit

SpeedNext ==
    \/ \E newSpeed \in SpeedRequests : GUserSpeedChange(newSpeed)
    \/ GUpdateSpeedControl
    \/ \E sdk \in SdkMetrics : GPing(sdk)

SpeedSpec == SpeedInit /\ [][SpeedNext]_vars
----------------------------------------------------------------------------
(* UnpackSpec: ServerMessage given packets of known tags, some of them with *)
(* a payload that fails to unpack                                           *)

MalformedPackets ==
    {pkt @@ [malformed |-> TRUE] :
        pkt \in GameJoinPackets \cup GameSyncPackets \cup PausePackets
                \cup {ChatPkt(1, "hi")}}

\* ServerMessage with a packet whose payload fails to unpack
GMalformed(pkt) ==
    \E errs \in ErrInputs(gs, dcf) :
        Handled(ServerMessage(St(gs, dcf, wire, FALSE), pkt, errs),
                "Malformed", pkt.tag)

UnpackNext ==
    \/ \E pkt \in MalformedPackets : GMalformed(pkt)
    \/ \E pkt \in GameJoinPackets : GJoin(pkt)
    \/ \E pause, fromServer \in BOOLEAN : GPauseGame(pause, fromServer)
    \/ \E sdk \in SdkMetrics : GPing(sdk)

UnpackSpec == GameInit /\ [][UnpackNext]_vars
----------------------------------------------------------------------------
(* TimeoutSpec: CheckSync after frames have passed, with average round trip *)
(* times on both sides of SYNCCHECK_MSG_TIMEOUT                             *)

MaxTimeoutFrame == 352     \* TimeoutSpec: frames created

HighRttMetrics == {<<200>>, <<500>>}

\* CheckSync: int adjustedTimeout = SYNCCHECK_TIMEOUT + static_cast<int>(rtt / 10);
\* the value is assigned to a local variable that nothing reads.
AdjustedTimeout(rtt) == SYNCCHECK_TIMEOUT + rtt \div 10

\* Update: CreateNewFrame(true, false)
TCreateNewFrame ==
    /\ hostThread = "done"
    /\ gs.serverFrameNum < MaxTimeoutFrame
    /\ \E errs \in ErrInputs(gs, dcf) :
          Handled(CreateNewFrame(St(gs, dcf, wire, FALSE), errs),
                  "CreateNewFrame", gs.serverFrameNum + 1)

\* The host program calls CheckSync().
TCheckSync ==
    /\ hostThread = "done"
    /\ gs' = CheckSync(gs)
    /\ hist' = GameHist("CheckSync", gs.serverFrameNum, St(gs, dcf, wire, FALSE))
    /\ UNCHANGED <<dcf, udpQueue, wire, serverThread, hostThread, workersHung,
                   delivered, callers, workers, dispatched>>

\* ServerMessage, NETMSG_SYNCRESPONSE, within the first frames
TSyncResponse(pkt) ==
    /\ hostThread = "done"
    /\ gs.serverFrameNum <= LastRecvFrame
    /\ \E errs \in ErrInputs(gs, dcf) :
          Handled(ServerMessage(St(gs, dcf, wire, FALSE), pkt, errs),
                  "SYNCRESPONSE", pkt.checksum)

TimeoutNext ==
    \/ \E autohost \in {"none"} : GInitialize(autohost)
    \/ \E pkt \in GameSyncPackets : TSyncResponse(pkt)
    \/ \E sdk \in HighRttMetrics : GPing(sdk)
    \/ TCreateNewFrame
    \/ TCheckSync

TimeoutSpec == GameInit /\ [][TimeoutNext]_vars
----------------------------------------------------------------------------
(* GateSpec: SendData on a DCFConnection that its owner unmutes, updates    *)
(* and closes at any time                                                   *)

MaxGateSends == 2      \* GateSpec: SendData calls in one run

\* SendData(packet) with the SDK answering errs
GateSendData(errs) ==
    /\ hist.calls < MaxGateSends
    /\ dcf' = SendData(dcf, InboundLength, errs).conn
    /\ hist' = [op |-> "SendData",
                admitted |-> SendAdmitted(dcf, InboundLength),
                sent |-> SendData(dcf, InboundLength, errs).sent,
                failed |-> SendData(dcf, InboundLength, errs).failed,
                hung |-> SendData(dcf, InboundLength, errs).hung,
                calls |-> hist.calls + 1,
                peeks |-> hist.peeks]
    /\ UNCHANGED <<gs, udpQueue, wire, serverThread, hostThread, workersHung,
                   delivered, callers, workers, dispatched>>

GateNext ==
    \/ \E errs \in ErrSeqs : GateSendData(errs)
    \/ CUnmute
    \/ CUpdate
    \/ CClose

GateSpec == ConnInit /\ [][GateNext]_vars
----------------------------------------------------------------------------
(* SlotSpec: the handlers that index the per-player arrays by the player    *)
(* number of the packet, given numbers inside and outside [0, MAX_PLAYERS)  *)
(* (NumSlots stands for MAX_PLAYERS)                                        *)

SlotNumbers == {1, NumSlots, NumSlots + 3}
SlotJoinPackets == {NewPlayerPkt(p, spec, 0) : p \in SlotNumbers, spec \in BOOLEAN}
SlotPingPackets ==
    {Packet("PING", InboundLength, p, 0, 0, FALSE, FALSE, 0) : p \in SlotNumbers}
SlotProgressPackets ==
    {Packet("GAME_FRAME_PROGRESS", InboundLength, p, 5, 0, FALSE, FALSE, 0) :
        p \in SlotNumbers}

\* The handler has returned st, or the thread was stopped inside it.
SlotHandled(st, op, arg) ==
    /\ gs' = st.gs
    /\ dcf' = st.dcf
    /\ wire' = st.wire
    /\ serverThread' = IF st.hung THEN "hung" ELSE "running"
    /\ hist' = GameHist(op, arg, st)
    /\ UNCHANGED <<udpQueue, hostThread, workersHung, delivered, callers, workers,
                   dispatched>>

\* AddAdditionalUser(inbuf, dataLength)
SAddAdditionalUser(pkt) ==
    /\ serverThread = "running"
    /\ pkt.playerNum \in Slots => gs.rejectedConnections[pkt.playerNum] < MaxRejects
    /\ \E errs \in ErrInputs(gs, dcf), ub \in WildWriteOutcomes :
          SlotHandled(AddAdditionalUserAt(St(gs, dcf, wire, FALSE), pkt, errs, ub),
                      "AddAdditionalUser", pkt.playerNum)

\* HandlePing(inbuf, dataLength)
SHandlePing(pkt) ==
    /\ serverThread = "running"
    /\ \E ub \in WildWriteOutcomes :
          SlotHandled(HandlePing(St(gs, dcf, wire, FALSE), pkt, ub),
                      "HandlePing", pkt.playerNum)

\* HandleGameFrameProgress(inbuf, dataLength)
SHandleGameFrameProgress(pkt) ==
    /\ serverThread = "running"
    /\ SlotHandled(HandleGameFrameProgress(St(gs, dcf, wire, FALSE), pkt),
                   "HandleGameFrameProgress", pkt.playerNum)

SlotNext ==
    \/ \E pkt \in SlotJoinPackets : SAddAdditionalUser(pkt)
    \/ \E pkt \in SlotPingPackets : SHandlePing(pkt)
    \/ \E pkt \in SlotProgressPackets : SHandleGameFrameProgress(pkt)

SlotSpec == GameInit /\ [][SlotNext]_vars
----------------------------------------------------------------------------
(* The claims *)

\* The players a sync response is expected from
ExpectedResponders(g) ==
    {p \in Slots : g.players[p].active /\ ~g.players[p].spectator}

\* Two distinct players have answered for frame f with different checksums
ChecksumMismatch(g, f) ==
    \E p, q \in DOMAIN SyncEntry(g, f) :
        p # q /\ SyncEntry(g, f)[p] # SyncEntry(g, f)[q]

\* The server's thread is in its loop
ServerRunning == serverThread = "running" /\ ~gs.quitServer

\* C1: serverFrameNum never decreases: whatever step is taken (a tick of the
\* server thread, Initialize, a pause, a reload), the value after the step
\* is at least the value before it.
C1_FrameNeverDecreases ==
    [][gs'.serverFrameNum >= gs.serverFrameNum]_vars

\* C2: while the server runs, with serverFrameNum advancing from 0, a
\* KEYFRAME packet has left for the clients for a frame F the server has
\* reached if and only if F is a multiple of serverKeyframeInterval: none
\* skipped, none in between.
C2_KeyframeCadence ==
    ServerRunning =>
        /\ wire.keyFrames \subseteq 0 .. gs.serverFrameNum
        /\ \A F \in 0 .. gs.serverFrameNum :
              F \in wire.keyFrames <=> F % serverKeyframeInterval = 0

\* C3: a tick of Update that finds and leaves the game paused changes
\* neither serverFrameNum nor modGameTime, and leaves the inbound queue
\* empty: every queued packet was taken out and dispatched.
C3_PausedTickDrains ==
    [][(ServerTick /\ gs.isPaused /\ gs'.isPaused) =>
          /\ gs'.serverFrameNum = gs.serverFrameNum
          /\ gs'.modGameTime = gs.modGameTime
          /\ Inbound(gs', dcf', udpQueue') = <<>>]_vars

\* C4: once a running server has dispatched the responses of two distinct
\* players for a frame F with different checksums, syncErrorFrame is F. (The
\* states are those between ticks; desyncHasOccurred is left out because
\* the primary branch of Update clears it within the same tick.)
C4_MismatchMarksDesync ==
    \A F \in DOMAIN gs.outstandingSyncFrames :
        (ServerRunning /\ ChecksumMismatch(gs, F)) => gs.syncErrorFrame = F

\* C5: the timeout path marks nothing for a young entry: on a running
\* server, a step that sets syncWarningFrame to F, or raises
\* desyncHasOccurred, is taken only when an outstanding entry (F itself for
\* syncWarningFrame) is more than SYNCCHECK_TIMEOUT frames old.
C5_YoungEntryNotMarked ==
    [][ServerRunning =>
          /\ gs'.syncWarningFrame # gs.syncWarningFrame =>
                /\ gs'.syncWarningFrame \in DOMAIN gs.outstandingSyncFrames
                /\ gs.serverFrameNum - gs'.syncWarningFrame > SYNCCHECK_TIMEOUT
          /\ (gs'.desyncHasOccurred /\ ~gs.desyncHasOccurred) =>
                \E F \in DOMAIN gs.outstandingSyncFrames :
                    gs.serverFrameNum - F > SYNCCHECK_TIMEOUT]_vars

\* C6: an entry for frame F that is outstanding on a running server and more
\* than SYNCCHECK_TIMEOUT frames old gets syncWarningFrame = F within the
\* following ticks: once MarkDelay more frames have been generated, the
\* warning is there.
C6_LateEntryMarked ==
    \A F \in DOMAIN gs.outstandingSyncFrames :
        (ServerRunning /\ gs.serverFrameNum - F > SYNCCHECK_TIMEOUT + MarkDelay)
            => gs.syncWarningFrame = F

\* C7: on a running server, for a frame F whose key frame has been emitted
\* (the frame counter has passed F), the pending entry for
\* F exists exactly as long as F is at most SYNCCHECK_TIMEOUT frames old and
\* some active non-spectator player has not answered for F: it is there
\* from the emission on, and gone once all have answered or F has aged out.
C7_PendingEntryLifetime ==
    \A F \in SyncFrames :
        (ServerRunning /\ gs.serverFrameNum >= F) =>
            (F \in DOMAIN gs.outstandingSyncFrames
                <=> /\ gs.serverFrameNum - F <= SYNCCHECK_TIMEOUT
                    /\ ~(ExpectedResponders(gs) \subseteq DOMAIN SyncEntry(gs, F)))

\* C8: a tick of Update that starts with desyncHasOccurred set and returns
\* has cleared it, on the primary and on the fallback path, and has not
\* set quitServer while a team is still active.
C8_DesyncClearedByTick ==
    [][(ServerTick /\ gs.desyncHasOccurred /\ serverThread' = "running") =>
          /\ ~gs'.desyncHasOccurred
          /\ (gs'.quitServer => gs.quitServer \/ CheckForGameEnd(gs'))]_vars

\* C9: a packet handed to SendData on an initialized, unmuted connection and
\* not dropped as invalid has moved a counter when the call is over:
\* totalPacketsSent was incremented for it, or failedSendAttempts was.
C9_SendOutcomeCounted ==
    (hist.op = "SendData" /\ hist.admitted) => (hist.sent \/ hist.failed > 0)

\* C10: the failover is invoked exactly when five send failures in a row
\* have accumulated: every failover happens at a run of FailoverThreshold
\* failures or more, and no further message is sent after such a run
\* without a failover in between.
C10_FailoverAtFiveFailures ==
    /\ \A r \in dcf.failoverRuns : r >= FailoverThreshold
    /\ ~dcf.overdue

\* No caller is inside TriggerFailoverIfNeeded
CallersIdle == \A t \in Callers : callers[t].pc = "idle"

\* C11: the failover is invoked once per run of failures. Every invocation
\* comes after at least FailoverThreshold send failures since the previous
\* invocation, and once the callers have left TriggerFailoverIfNeeded the
\* counter has been reset: failedSendAttempts counts the failures since the
\* latest failover only.
C11_FailoverOncePerRun ==
    /\ \A r \in dcf.failoverRuns : r >= FailoverThreshold
    /\ (CallersIdle /\ dcf.failovers > 0) => dcf.failedSendAttempts <= dcf.sendRun

C13_UserSpeedInRange ==
    /\ gs.minUserSpeed <= gs.userSpeedFactor
    /\ gs.userSpeedFactor <= gs.maxUserSpeed

\* C13 witness: UpdateSpeedControl has run on the primary path with an average
\* round-trip time above 50 ms, so its RTT block has recomputed the factor.
C13_Witness ==
    /\ hist.op = "UpdateSpeedControl" /\ hist.arg # 0
    /\ gs.dcfConnection
    /\ dcf.averageRTT > SpeedControlRttLimit

\* C14: internalSpeed stays within [minUserSpeed, userSpeedFactor], whatever
\* UpdateSpeedControl, UserSpeedChange and the SYNCRESPONSE case have done.
C14_InternalSpeedInRange ==
    /\ gs.minUserSpeed <= gs.internalSpeed
    /\ gs.internalSpeed <= gs.userSpeedFactor

PausePacketsIn(out) == {i \in DOMAIN out : out[i].tag = "PAUSE"}

\* C15: PauseGame(on, fromServer) sets isPaused to on and passes exactly one
\* PAUSE packet to the connection (SendData on the primary path, Broadcast
\* otherwise) if and only if gamePausable holds and on differs from isPaused;
\* otherwise it changes nothing and passes no packet on.  A PauseGame(on)
\* that follows a PauseGame(on) therefore changes nothing and adds no packet.
C15_PauseIdempotent ==
    [][hist'.op = "PauseGame" =>
          \A pause, fromServer \in BOOLEAN :
              GPauseGame(pause, fromServer) =>
                  /\ IF gs.gamePausable /\ pause # gs.isPaused
                     THEN /\ gs' = [gs EXCEPT !.isPaused = pause]
                          /\ Len(hist'.out) = 1
                          /\ Cardinality(PausePacketsIn(hist'.out)) = 1
                     ELSE /\ gs' = gs /\ dcf' = dcf /\ wire' = wire
                          /\ hist'.out = <<>>
                  /\ (hist.op = "PauseGame" /\ hist.arg = pause) =>
                          /\ gs' = gs /\ dcf' = dcf /\ wire' = wire
                          /\ hist'.out = <<>>]_vars

\* C15 witness: a pausable game that is paused, after a PauseGame(true) that
\* passed no packet on, i.e. a PauseGame(true) on a game already paused.
C15_Witness ==
    /\ hist.op = "PauseGame" /\ hist.arg = TRUE /\ hist.out = <<>>
    /\ gs.gamePausable /\ gs.isPaused

\* C16: Close is idempotent: a Close on a connection that was already closed
\* (the destructor's Close(true) after an explicit Close included) changes
\* nothing of the connection, so it neither flushes nor stops the client again.
C16_CloseIdempotent ==
    [][(dcf.stopped > 0 /\ CClose) => dcf' = dcf]_vars

\* C17: Peek(n) leaves the inbound queue as it was, for every n, also between
\* the workers' pushes; GetData removes exactly the head of the queue.
C17_PeekSideEffectFree ==
    [][/\ hist'.peeks # hist.peeks =>
             \A ahead \in PeekArgs :
                 LPeek(ahead) => dcf'.msgQueue = dcf.msgQueue
       /\ dispatched' # dispatched =>
             (LGetData => dcf'.msgQueue = Tail(dcf.msgQueue))]_vars

\* C18: the packets the transport hands over are passed on to ServerMessage in
\* the order of the hand-over, none twice, and once the workers are idle and
\* the queue is empty every accepted packet has been passed on.
C18_InboundOrder ==
    /\ \A i, j \in DOMAIN dispatched : i < j => dispatched[i] < dispatched[j]
    /\ ((\A w \in LinkWorkers : workers[w] = NoPacket) /\ dcf.msgQueue = <<>>)
           => Len(dispatched) = dcf.totalPacketsReceived

Rejects(out) == {i \in DOMAIN out : out[i].tag = "REJECT"}

\* The request pkt was accepted by the step: its slot is active and no REJECT
\* was sent.
Accepted(pkt) ==
    /\ gs'.players[pkt.playerNum].active
    /\ gs'.players[pkt.playerNum].spectator = pkt.spectator
    /\ Rejects(hist'.out) = {}

SpectatorsAdmitted == gs.allowSpecJoin \/ gs.whiteListAdditionalPlayers

\* C19, as stated: a CREATE_NEWPLAYER request is accepted if and only if
\* !spectator || allowSpecJoin || whiteListAdditionalPlayers.
C19_AdmissionAsStated ==
    [][hist'.op = "CREATE_NEWPLAYER" =>
          \A pkt \in GameJoinPackets :
              GJoin(pkt) =>
                  (Accepted(pkt) <=> (~pkt.spectator \/ SpectatorsAdmitted))]_vars

\* C19, amended: a CREATE_NEWPLAYER request is accepted if and only if
\* !spectator || allowSpecJoin || whiteListAdditionalPlayers and the player
\* number has been rejected at most 3 times before.
C19_Admission ==
    [][hist'.op = "CREATE_NEWPLAYER" =>
          \A pkt \in GameJoinPackets :
              GJoin(pkt) =>
                  (Accepted(pkt) <=>
                      /\ ~pkt.spectator \/ SpectatorsAdmitted
                      /\ gs.rejectedConnections[pkt.playerNum] <= RejectLimit)]_vars

\* C19 witness: a player number rejected more than 3 times has asked to join
\* as a player and was refused.
C19_Witness ==
    /\ hist.op = "CREATE_NEWPLAYER" /\ hist.arg = FALSE
    /\ gs.rejectedConnections[1] > RejectLimit + 1
    /\ Rejects(hist.out) # {}

RejectReasons(out) == {out[i].reason : i \in Rejects(out)}

\* C20: a rejected join sends one REJECT and adds one to the joiner's
\* rejection counter; a spectator refused because the server admits no
\* spectators is told "Server does not allow additional spectators" on the
\* first 4 attempts and "Too many failed connection attempts" from then on;
\* with the counter above 3 every attempt is denied.
C20_RejectionCounting ==
    [][hist'.op = "CREATE_NEWPLAYER" =>
          \A pkt \in GameJoinPackets :
              GJoin(pkt) =>
                  /\ ~Accepted(pkt) =>
                        /\ Cardinality(Rejects(hist'.out)) = 1
                        /\ gs'.rejectedConnections[pkt.playerNum]
                               = gs.rejectedConnections[pkt.playerNum] + 1
                  /\ (pkt.spectator /\ ~SpectatorsAdmitted) =>
                        RejectReasons(hist'.out)
                            = IF gs.rejectedConnections[pkt.playerNum] > RejectLimit
                              THEN {"Too many failed connection attempts"}
                              ELSE {"Server does not allow additional spectators"}
                  /\ gs.rejectedConnections[pkt.playerNum] > RejectLimit
                        => ~Accepted(pkt)]_vars

\* C21: every active participant has a connection (and, a connection being
\* owned by the slot it was moved into, exactly one).
C21_ActiveHasConnection ==
    \A p \in Slots : gs.players[p].active => gs.players[p].connection

Occurrences(s, x) == Cardinality({i \in DOMAIN s : s[i] = x})

\* C22: every skirmish-AI id is either in the free list, once, or held by a
\* caller, once, and never both; so no id is handed out while it is held.
C22_AiIdAccounting ==
    \A id \in AiIds : Occurrences(gs.freeSkirmishAIs, id) + hist.held[id] = 1

\* The path Update receives from: the branch it takes
ReceivePath ==
    IF gs.dcfConnection /\ dcf.initialized THEN "dcf"
    ELSE IF gs.udpListener THEN "legacy"
    ELSE "none"

\* C23: exactly one of the primary path (dcfConnection) and the fallback path
\* (udpListener, Broadcast) exists after construction, and every send and
\* every receive uses that one.
C23_OnePath ==
    /\ gs.dcfConnection # gs.udpListener
    /\ ReceivePath = (IF gs.dcfConnection THEN "dcf" ELSE "legacy")
    /\ hist.paths \subseteq {ReceivePath}

\* C24: quitServer is set by the game-end check only once the game has
\* started; it is never set at startup merely because no team is active yet.
C24_GameEndGated ==
    gs.quitServer => gs.gameHasStarted

\* C25: once the connection is closed, every worker eventually leaves
\* UpdateThreadLoop (so the destructor's joins return), whatever the inbound
\* queue holds.
C25_WorkersExit ==
    (dcf.stopped > 0) ~> (\A w \in LinkWorkers : workers[w] = Exited)

JoinedMessages(host, playerNum) ==
    {i \in DOMAIN host : host[i].tag = "PLAYER_JOINED" /\ host[i].playerNum = playerNum}

\* C26: after an accepted CREATE_NEWPLAYER of a player (not a spectator),
\* with an autohost attached, the slot is active, the team is active, the
\* new-player packet has been passed on for broadcast and exactly one
\* PLAYER_JOINED for that player number has been sent to the autohost.
C26_Handshake ==
    [][(hist'.op = "CREATE_NEWPLAYER" /\ gs.hostif = "attached") =>
          \A pkt \in GameJoinPackets :
              (GJoin(pkt) /\ ~pkt.spectator /\ Accepted(pkt)) =>
                  /\ gs'.players[pkt.playerNum].active
                  /\ gs'.teams[pkt.team]
                  /\ \E i \in DOMAIN hist'.out : hist'.out[i] = pkt
                  /\ Cardinality(JoinedMessages(hist'.host, pkt.playerNum)) = 1]_vars

\* The answers after which SendWithRetry is to stop: a success or an error
\* of class other
StopsAt(errs) ==
    {i \in DOMAIN errs : errs[i] \in {"DCF_SUCCESS", "DCF_OTHER"}}

\* Transmission attempts for one packet: up to the first success or error of
\* class other, and 3 when every answer is a timeout or network-down
Attempts(errs) ==
    IF StopsAt(errs) = {} THEN DefaultMaxRetries
    ELSE CHOOSE i \in StopsAt(errs) : \A j \in StopsAt(errs) : i <= j

\* C27: for one packet SendWithRetry transmits at most 3 times, goes on after
\* a timeout or a network-down error, and stops after the first success and
\* after an error of class other.
C27_RetryBound ==
    [][\A errs \in ErrSeqs :
          (RSendData(errs) /\ SendAdmitted(dcf, InboundLength)) =>
              /\ dcf'.sends - dcf.sends = Attempts(errs)
              /\ dcf'.sends - dcf.sends <= DefaultMaxRetries]_vars

\* C27 witness: the first packet went out at the third attempt.
C27_Witness ==
    /\ hist.op = "SendData" /\ hist.calls = 1 /\ hist.sent
    /\ dcf.sends = DefaultMaxRetries
    /\ dcf.failedSendAttempts = DefaultMaxRetries - 1

\* C28: NeedsReconnect() holds exactly when failedSendAttempts > 10, and
\* under sustained send failures (more than 10 timeout or network-down
\* failures with no packet transmitted in between) it does hold.
C28_ReconnectCandidacy ==
    /\ NeedsReconnect(dcf) <=> dcf.failedSendAttempts > ReconnectThreshold
    /\ hist.failed > ReconnectThreshold => NeedsReconnect(dcf)

\* C29: in every tick of the server thread that returns, the inbound
\* queue has been drained when the tick ends, and the frame of the tick is
\* generated exactly when the server is not paused once the queued packets
\* have been dispatched (and is not reloading): a pause or unpause packet
\* received before the tick decides about the frame of that very tick.
C29_TickOrdering ==
    [][(/\ delivered' = delivered
        /\ hostThread' = hostThread
        /\ serverThread' = "running"
        /\ ServerTick)
       => /\ Inbound(gs', dcf', udpQueue') = <<>>
          /\ gs'.serverFrameNum \in {gs.serverFrameNum, gs.serverFrameNum + 1}
          /\ (gs'.serverFrameNum = gs.serverFrameNum + 1)
                <=> (~gs'.isPaused /\ ~gs.reloadingServer)]_vars

\* A tick has dispatched a queued PAUSE packet and generated no frame: the
\* server is paused, its queue is empty and no frame was ever produced.
C29_Witness ==
    /\ gs.isPaused
    /\ delivered > 0
    /\ Inbound(gs, dcf, udpQueue) = <<>>
    /\ serverThread = "running"
    /\ hostThread = "idle"
    /\ gs.serverFrameNum = -1

\* A thread is between two of its mutations of the server's state.
Mutating(t) ==
    IF t = "server" THEN callers[t].pc \in {"drained", "read"}
    ELSE callers[t].pc \in {"polled", "frameReset"}

\* C30: every mutation of the server's state is made by the server thread
\* or by a thread that holds gameServerMutex, and no two threads are inside
\* their mutations of it at the same time.
C30_ServerStateOwnership ==
    /\ hist.writer \in {"none", "server"} \/ hist.locked
    /\ ~(Mutating("server") /\ Mutating("host"))

\* C31: at any time at most one thread is pushing to the inbound queue (the
\* server thread is the only one that pops), and the queue never holds more
\* than 1024 packets.
C31_QueueDiscipline ==
    /\ Cardinality(Pushers) <= 1
    /\ Len(dcf.msgQueue) <= QueueCapacity

\* Thread t is inside an access to the connection's metrics: between the
\* read and the write of failedSendAttempts++, or past the test of
\* failedSendAttempts in TriggerFailoverIfNeeded and before its reset.
AccessingMetrics(t) == callers[t].pc \in {"incr", "passed", "invoked"}

\* C32: a thread inside a read or write of the metrics holds metricsMutex,
\* and no two threads are inside such accesses at the same time.
C32_MetricsLocked ==
    /\ \A t \in Callers : callers[t].pc = "incr" => HoldsMetricsMutex(t)
    /\ \A t, o \in Callers :
          (t # o /\ callers[t].pc = "incr") => ~AccessingMetrics(o)

\* The active players (not spectators) that asked to join team t. The local
\* client that Initialize adds is given no team by the code and is left
\* aside.
TeamMembers(t) ==
    {p \in Slots : /\ gs.players[p].active
                   /\ ~gs.players[p].spectator
                   /\ gs.players[p].team = t
                   /\ ToUnsigned(p) # gs.localClientNumber}

\* C33: a team is active exactly while at least one active non-spectator
\* participant is assigned to it.
C33_TeamActivity == \A t \in Teams : gs.teams[t] <=> TeamMembers(t) # {}

UserSpeedPackets(out) == {i \in DOMAIN out : out[i].tag = "USER_SPEED"}

C35_MalformedDropped ==
    [][hist'.op = "Malformed" =>
          \A pkt \in MalformedPackets :
              GMalformed(pkt) => (gs' = gs /\ hist'.out = <<>>)]_vars

\* C36: on the primary path with an average round trip time above
\* SYNCCHECK_MSG_TIMEOUT, CheckSync times out no entry whose age is within
\* 300 + rtt/10 frames.
C36_TimeoutInflation ==
    [][(/\ hist'.op = "CheckSync"
        /\ TCheckSync
        /\ gs.dcfConnection
        /\ dcf.averageRTT > SYNCCHECK_MSG_TIMEOUT
        /\ \A f \in DOMAIN gs.outstandingSyncFrames :
              /\ gs.serverFrameNum - f >= 0
              /\ gs.serverFrameNum - f <= AdjustedTimeout(dcf.averageRTT))
       => gs' = gs]_vars

\* C37: a call of DCFConnection::Update returns: the calling thread is never
\* left blocked on metricsMutex inside Update or a function it calls.
C37_UpdateReturns == ~(hist.op = "Update" /\ hist.hung)

\* C38: the connection starts muted; a SendData call on a connection that is
\* muted or not initialized leaves the connection as it was (no call of the
\* SDK, no counter changed); muted is cleared by Unmute only and never set
\* again.
C38_MuteGate ==
    /\ dcf.muted
    /\ [][/\ (hist'.op = "SendData" /\ (dcf.muted \/ ~dcf.initialized))
                => dcf' = dcf
          /\ (dcf.muted /\ ~dcf'.muted) => (dcf' = Unmute(dcf) /\ hist'.op = "Unmute")
          /\ ~dcf.muted => ~dcf'.muted]_vars

\* SendData has been called on the muted connection, nothing was sent.
C38_Witness ==
    /\ hist.op = "SendData"
    /\ dcf.initialized /\ dcf.muted
    /\ ~hist.admitted /\ ~hist.sent
    /\ dcf.sends = 0

\* C39: AddAdditionalUser, HandlePing and HandleGameFrameProgress write to no
\* per-player array at an index outside [0, MAX_PLAYERS), and a packet whose
\* player number is outside that range changes nothing and sends nothing.
C39_SlotBounds ==
    [][hist'.op \in {"AddAdditionalUser", "HandlePing", "HandleGameFrameProgress"}
          => /\ hist'.wild = {}
             /\ serverThread' = "running"
             /\ hist'.arg \notin Slots => (gs' = gs /\ hist'.out = <<>>)]_vars

\* What SendWithRetry returns to SendData when the SDK answers errs.
RetryResult(c, errs) ==
    SendWithRetry(c, InboundLength, 0, NoError, errs, DefaultMaxRetries)

\* C40: SendWithRetry returns the empty error code exactly when an attempt
\* transmitted the packet, so that SendData takes its failure branch only
\* for packets that were not transmitted.
C40_RetryResult ==
    [][(hist'.op = "SendData" /\ SendAdmitted(dcf, InboundLength))
          => \A errs \in ErrSeqs :
                (RSendData(errs) /\ ~RetryResult(dcf, errs).hung)
                    => (RetryResult(dcf, errs).ec = NoError <=> hist'.sent)]_vars
============================================================================
